---- MODULE Spec2Model ----
(***************************************************************************)
(* Model of svtk's complex-SV resolution: the ComplexSV classifier         *)
(* (svtk/cxsv/complex_sv.py), the translocation classifier                 *)
(* (svtools/cxsv/cpx_tloc.py) and the resolve driver with its stream       *)
(* reconciliation (svtk/cli/resolve.py).                                   *)
(*                                                                         *)
(* A record is a TLA+ record carrying the pysam.VariantRecord fields the   *)
(* code reads or writes.  Chromosomes are contig ranks (1, 2), ids are     *)
(* integers, algorithm names are indices into an alphabetically sorted     *)
(* name table, so that Python's sorted() is numeric order in the model.    *)
(***************************************************************************)
EXTENDS Integers, Sequences, FiniteSets, TLC

VARIABLES
    vcf,               \* the sorted input stream (pysam.VariantFile)
    header_evidence,   \* 'EVIDENCE' in header.info.keys()
    clusters,          \* link_cpx(vcf): clusters in first-encountered order
    ci,                \* index of the cluster the for-loop is at
    ins_i,             \* index of the record in an all-insertion cluster
    pc,                \* position of resolve_complex_sv / _merge_records
    built,             \* history: every ComplexSV constructed, in order
    cpx_records,       \* deque of synthesized / unresolved records
    cpx_record_ids,    \* set of consumed record ids
    vi,                \* read position of the vcf iterator
    curr_record,       \* _merge_records: head of the original stream
    curr_cpx,          \* _merge_records: head of the synthesized queue
    out,               \* items yielded by _merge_records, in order
    queued,            \* history: the queue as handed to _merge_records
    rescan             \* one call of rescan_single_ender: arguments and locals

vars == <<vcf, header_evidence, clusters, ci, ins_i, pc, built,
          cpx_records, cpx_record_ids, vi, curr_record, curr_cpx, out,
          queued, rescan>>

(***************************************************************************)
(* Bounds                                                                  *)
(***************************************************************************)
MaxCluster == 3      \* largest cluster of the single-cluster specification
MaxRecs == 3         \* longest input stream of the pipeline specification
MaxStream == 3       \* longest original stream of the merge specification
MaxPairs == 4        \* most copies of one kind of pair in the evidence file
MaxQueue == 2        \* longest synthesized queue of the merge specification

(***************************************************************************)
(* Program constants                                                       *)
(***************************************************************************)
mh_buffer == 50
MaxSinkSpan == 100
window == 500      \* rescan_single_ender: window around the record start
dist == 300        \* rescan_single_ender: clustering distance
min_support == 4   \* rescan_single_ender: pairs required per sample

(***************************************************************************)
(* Records                                                                 *)
(***************************************************************************)
NA == "NA"                       \* an absent INFO string / unset attribute
\* A record as read from the input: no complex-SV tags yet.
Rec(svtype, chrom, chr2, pos, stop, strands, sr, algs) ==
    [id |-> 0, none |-> FALSE, svtype |-> svtype, chrom |-> chrom,
     chr2 |-> chr2, pos |-> pos, stop |-> stop, has_end |-> TRUE,
     strands |-> strands, sr |-> sr, algs |-> algs, alts |-> svtype,
     svlen |-> stop - pos, cpx_type |-> NA, unresolved |-> FALSE,
     event |-> 0, members |-> <<>>, source |-> <<>>]

\* Python's None, as the value of curr_record / curr_cpx and as a yielded item
None == [Rec(NA, 0, 0, 0, 0, NA, FALSE, <<>>) EXCEPT !.none = TRUE]

IsNone(r) == r.none

WithId(r, i) == [r EXCEPT !.id = i]

\* pysam: assigning alts drops END ("Setting alts removes END").
SetAlts(r, a) == [r EXCEPT !.alts = a, !.has_end = FALSE]

\* pysam: assigning stop (re)writes END.
SetStop(r, s) == [r EXCEPT !.stop = s, !.has_end = TRUE]

Min(a, b) == IF a <= b THEN a ELSE b
Max(a, b) == IF a >= b THEN a ELSE b
Abs(a) == IF a >= 0 THEN a ELSE -a

Range(s) == {s[i] : i \in 1..Len(s)}
Ids(s) == [i \in 1..Len(s) |-> s[i].id]

\* sorted(...) on integers
SetToSortedSeq(S) ==
    LET n == Cardinality(S)
    IN  CHOOSE s \in [1..n -> S] :
            /\ Range(s) = S
            /\ \A i \in 1..n - 1 : s[i] < s[i + 1]

Sorted(s) == SortSeq(s, LAMBDA a, b : a < b)

\* sorted(pair, key=lambda t: t.info['STRANDS']): '+' (43) sorts before
\* '-' (45), so '++' < '+-' < '-+' < '--'; the sort is stable.
StrandRank(st) ==
    CASE st = "++" -> 1 [] st = "+-" -> 2 [] st = "-+" -> 3
      [] st = "--" -> 4 [] OTHER -> 0

SortByStrands(pair) ==
    IF StrandRank(pair[2].strands) < StrandRank(pair[1].strands)
    THEN <<pair[2], pair[1]>>
    ELSE pair

(***************************************************************************)
(* ComplexSV.organize_records: the five partitions of a cluster            *)
(***************************************************************************)
inversions(records) == SelectSeq(records, LAMBDA r : r.svtype = "INV")
tlocs(records) == SelectSeq(records, LAMBDA r : r.chrom # r.chr2)
breakends(records) ==
    SelectSeq(records, LAMBDA r : r.chrom = r.chr2 /\ r.svtype = "BND")
insertions(records) == SelectSeq(records, LAMBDA r : r.svtype = "INS")
cnvs(records) == SelectSeq(records, LAMBDA r : r.svtype \in {"DEL", "DUP"})

(***************************************************************************)
(* ComplexSV.remove_SR_only_breakpoints                                    *)
(***************************************************************************)
\* A filter that ignores the header and drops SR-only records always.
remove_SR_only_breakpoints_no_header(records, has_evidence) ==
    LET clean_records == SelectSeq(records, LAMBDA r : ~r.sr)
    IN  IF Len(clean_records) > 0
        THEN clean_records
        ELSE records

remove_SR_only_breakpoints(records, has_evidence) ==
    LET clean_records == SelectSeq(records, LAMBDA r : ~r.sr)
    IN  IF has_evidence /\ Len(clean_records) > 0
        THEN clean_records
        ELSE records

(***************************************************************************)
(* ok_tloc_strands, ok_ins_strands                                         *)
(***************************************************************************)
ok_tloc_strands(tloc1, tloc2) ==
    LET s == SortByStrands(<<tloc1, tloc2>>)
    IN  \/ s[1].strands = "++" /\ s[2].strands = "--"
        \/ s[1].strands = "+-" /\ s[2].strands = "-+"

ok_ins_strands(bnd1, bnd2) ==
    LET s == SortByStrands(<<bnd1, bnd2>>)
    IN  s[1].strands = "+-" /\ s[2].strands = "-+"

(***************************************************************************)
(* ComplexSV.set_cluster_type                                              *)
(***************************************************************************)
\* Line 408 compares the list self.insertions with the integer 1; in
\* Python a list never equals an integer.
ListEqualsInt(list, n) == FALSE

class_counts(records) ==
    <<Len(inversions(records)), Len(tlocs(records)),
      Len(breakends(records)), Len(insertions(records))>>

SumCounts(cc) == cc[1] + cc[2] + cc[3] + cc[4]

\* An inversion pair typed the wrong way round.
InversionPairType_swapped(invs) ==
    IF invs[1].strands = invs[2].strands
    THEN "CANDIDATE_INVERSION"
    ELSE "MATCHED_STRANDS"

\* Lines 378-382: an inversion pair.
InversionPairType(invs) ==
    IF invs[1].strands = invs[2].strands
    THEN "MATCHED_STRANDS"
    ELSE "CANDIDATE_INVERSION"

\* A translocation pair typed without looking at the CNVs.
TlocPairType_any_cnv(tl, cnv_list) ==
    IF ok_tloc_strands(tl[1], tl[2]) THEN "CANDIDATE_TRANSLOCATION"
    ELSE "STRAND_MISMATCH_TLOC"

\* Lines 384-389: a translocation pair.
TlocPairType(tl, cnv_list) ==
    IF Len(cnv_list) > 0 THEN "TLOC_WITH_CNV"
    ELSE IF ok_tloc_strands(tl[1], tl[2]) THEN "CANDIDATE_TRANSLOCATION"
    ELSE "STRAND_MISMATCH_TLOC"

\* Lines 391-396: a pair of same-chromosome breakends.
BreakendPairType(bnds, cnv_list) ==
    IF Len(cnv_list) > 0 THEN "INS_WITH_CNV"
    ELSE IF ok_ins_strands(bnds[1], bnds[2]) THEN "CANDIDATE_INSERTION"
    ELSE "STRAND_MISMATCH_INS"

set_cluster_type(records) ==
    LET cc == class_counts(records)
        paired == [i \in 1..4 |-> cc[i] = 2]
        absent == [i \in 1..4 |-> cc[i] = 0]
        where_paired == {i \in 1..4 : paired[i]}
        invs == inversions(records)
        tl == tlocs(records)
        bnds == breakends(records)
    IN  IF /\ \A i \in 1..4 : paired[i] # absent[i]
           /\ Cardinality(where_paired) = 1
        THEN LET idx == CHOOSE i \in where_paired : TRUE
             IN  CASE idx = 1 -> InversionPairType(invs)
                   [] idx = 2 -> TlocPairType(tl, cnvs(records))
                   [] idx = 3 -> BreakendPairType(bnds, cnvs(records))
                   [] OTHER -> "MULTIPLE_RESOLVED_INSERTIONS"
        ELSE IF SumCounts(cc) = 0 THEN "ERROR_CNV_ONLY"
        ELSE IF SumCounts(cc) = 1
        THEN IF Len(insertions(records)) = 1
             THEN "RESOLVED_INSERTION"
             ELSE "SINGLE_ENDER"
        ELSE IF SumCounts(cc) >= 2
        THEN IF ListEqualsInt(insertions(records), 1)
                /\ Len(breakends(records)) >= 1
             THEN "RESOLVED_INSERTION"
             ELSE "MIXED_BREAKENDS"
        ELSE "ERROR_UNCLASSIFIED"

\* The cluster types resolve() dispatches on; every other type is retried
\* once and then unresolved.
ResolvableTypes ==
    {"CANDIDATE_INVERSION", "CANDIDATE_TRANSLOCATION",
     "CANDIDATE_INSERTION", "RESOLVED_INSERTION"}

(***************************************************************************)
(* ComplexSV.set_unresolved                                                *)
(***************************************************************************)
set_unresolved(c) == [c EXCEPT !.svtype = "UNR", !.cpx_type = c.cluster_type]

(***************************************************************************)
(* ComplexSV.__init__ up to make_record: the object before resolve().      *)
(* first_type, n_det and n_filter record what resolve() did: the result of *)
(* the first cluster-type determination, the number of determinations and  *)
(* the number of SR-only filter passes; arms is what get_arms answered.    *)
(* error is the exception raised.                                          *)
(***************************************************************************)
make_record(records) == records[1]

NewComplexSV(records) ==
    [cluster |-> records, records |-> records, cluster_type |-> NA,
     first_type |-> NA, n_det |-> 0, n_filter |-> 0, svtype |-> NA,
     cpx_type |-> NA, vcf_record |-> make_record(records),
     arms |-> <<>>, error |-> NA]

(***************************************************************************)
(* classify_complex_inversion (svtk/cxsv/cpx_inv.py): the sub-types it     *)
(* returns and the CNVs it keeps.  A pair without CNV is a pure inversion; *)
(* with CNVs the sub-type depends on geometry the model leaves open, and   *)
(* the returned CNVs are some of the cluster's CNVs.                       *)
(***************************************************************************)
InversionTypes ==
    {"INV", "UNK", "COMPLEX_INS", "DUP5/INS3", "DUP3/INS5",
     "delINV", "INVdel", "delINVdel", "dupINV", "INVdup", "dupINVdup"}

SubSeqs(s) ==
    {SelectSeq(s, LAMBDA r : r.id \in keep) : keep \in SUBSET Range(Ids(s))}

classify_complex_inversion(FF, RR, cnv_list) ==
    IF cnv_list = <<>>
    THEN {<<"INV", <<>>>>}
    ELSE {<<t, kept>> : t \in InversionTypes, kept \in SubSeqs(cnv_list)}

\* 'INS' in cpx_type, 'B2A' in cpx_type, 'INV' in cpx_type: Python substring
\* tests over the labels the classifiers return.
ContainsINS(t) ==
    t \in {"COMPLEX_INS", "DUP5/INS3", "DUP3/INS5", "CTX_INS_A2B",
           "CTX_INS_B2A", "CTX_INV_INS_A2B", "CTX_INV_INS_B2A",
           "INS_A2B", "INS_B2A", "INS_UNCLASSIFIED"}
ContainsB2A(t) == t \in {"CTX_INS_B2A", "CTX_INV_INS_B2A", "INS_B2A"}
ContainsINV(t) == t \in {"CTX_INV_INS_A2B", "CTX_INV_INS_B2A"}

\* 'MEI_' + cpx_type.split('/')[1]
MeiType(t) == IF t = "DUP5/INS3" THEN "MEI_INS3" ELSE "MEI_INS5"

(***************************************************************************)
(* ComplexSV.resolve_inversion                                             *)
(***************************************************************************)
\* Lines 118-121: which inversion is FF and which is RR.
OrderInversions(invs) ==
    IF invs[1].strands = "++" THEN <<invs[1], invs[2]>>
                              ELSE <<invs[2], invs[1]>>

\* A sub-type mapping that reports a flanked inversion as a deletion.
InversionSvtype_del(cpx_type) ==
    IF cpx_type = "INV" THEN "INV"
    ELSE IF cpx_type = "UNK" THEN "UNR"
    ELSE IF cpx_type = "COMPLEX_INS" THEN "UNR"
    ELSE IF ContainsINS(cpx_type) THEN "INS"
    ELSE "DEL"

\* Lines 126-135.
InversionSvtype(cpx_type) ==
    IF cpx_type = "INV" THEN "INV"
    ELSE IF cpx_type = "UNK" THEN "UNR"
    ELSE IF cpx_type = "COMPLEX_INS" THEN "UNR"
    ELSE IF ContainsINS(cpx_type) THEN "INS"
    ELSE "CPX"

\* Lines 137-147: overall variant start/end of a non-insertion outcome.
InversionSpan(rec, FF, RR) ==
    LET r1 == [rec EXCEPT !.pos = Min(FF.pos, RR.pos)]
        r2 == SetStop(r1, Max(FF.stop, RR.stop))
    IN  [r2 EXCEPT !.svlen = Abs(r2.stop - r2.pos)]

\* Lines 149-187: sink and source of a dispersed duplication.
InversionInsertion(rec, FF, RR, cpx_type) ==
    LET dup5 == cpx_type = "DUP5/INS3"
        source_start == IF dup5 THEN RR.pos ELSE RR.stop
        source_end == IF dup5 THEN FF.pos ELSE FF.stop
        sink_start == IF dup5 THEN FF.stop ELSE FF.pos
        sink_end == IF dup5 THEN RR.stop ELSE RR.pos
        r1 == SetStop([rec EXCEPT !.pos = sink_start], sink_end)
    IN  [r1 EXCEPT !.svlen = Abs(source_end - source_start),
                   !.source = <<"INV", rec.chrom, source_start, source_end>>]

\* Lines 189-192: the alt allele and the type tags, written last.
TagRecord(rec, svtype, cpx_type) ==
    [SetAlts(rec, svtype) EXCEPT !.svtype = svtype, !.cpx_type = cpx_type]

resolve_inversion(c) ==
    LET pair == OrderInversions(inversions(c.records))
        FF == pair[1]
        RR == pair[2]
    IN  { LET cpx_type == cls[1]
              svtype == InversionSvtype(cpx_type)
              final_type == IF svtype = "INS" /\ is_mei THEN MeiType(cpx_type)
                                                       ELSE cpx_type
              spanned == IF svtype \in {"INV", "CPX", "UNR"}
                         THEN InversionSpan(c.vcf_record, FF, RR)
                         ELSE InversionInsertion(c.vcf_record, FF, RR, cpx_type)
          IN  [c EXCEPT !.records = <<FF, RR>> \o cls[2],
                        !.svtype = svtype,
                        !.cpx_type = final_type,
                        !.vcf_record = TagRecord(spanned, svtype, final_type)]
          : cls \in classify_complex_inversion(FF, RR, cnvs(c.records)),
            is_mei \in BOOLEAN }

(***************************************************************************)
(* classify_simple_translocation (svtools/cxsv/cpx_tloc.py)                *)
(***************************************************************************)
\* A comparison without the microhomology buffer.
greater_unbuffered(p1, p2) == p1 > p2

\* Buffer comparisons
greater(p1, p2) == p1 > p2 - mh_buffer

\* A classifier that tries the insertion patterns before the reciprocal
\* one.
classify_simple_translocation_reordered(plus, minus) ==
    LET plus_A == plus.pos
        minus_A == minus.pos
        plus_B == plus.stop
        minus_B == minus.stop
    IN  IF plus.chrom # minus.chrom \/ plus.chr2 # minus.chr2
        THEN "TLOC_MISMATCH_CHROM"
        ELSE IF plus.strands = "+-"
        THEN IF greater(minus_A, plus_A) /\ greater(minus_B, plus_B)
             THEN "CTX_INS_B2A"
             ELSE IF greater(plus_A, minus_A) /\ greater(plus_B, minus_B)
             THEN "CTX_INS_A2B"
             ELSE IF greater(minus_A, plus_A) /\ greater(plus_B, minus_B)
             THEN "CTX_PP/QQ"
             ELSE "CTX_UNR"
        ELSE IF greater(minus_A, plus_A) /\ greater(plus_B, minus_B)
             THEN "CTX_INV_INS_B2A"
             ELSE IF greater(plus_A, minus_A) /\ greater(minus_B, plus_B)
             THEN "CTX_INV_INS_A2B"
             ELSE IF greater(minus_A, plus_A) /\ greater(minus_B, plus_B)
             THEN "CTX_PQ/QP"
             ELSE "CTX_UNR"

\* A classifier with a fall-through label resolve_translocation does not
\* know.
classify_simple_translocation_unknown(plus, minus) ==
    LET plus_A == plus.pos
        minus_A == minus.pos
        plus_B == plus.stop
        minus_B == minus.stop
    IN  IF plus.chrom # minus.chrom \/ plus.chr2 # minus.chr2
        THEN "TLOC_MISMATCH_CHROM"
        ELSE IF plus.strands = "+-"
        THEN IF greater(minus_A, plus_A) /\ greater(plus_B, minus_B)
             THEN "CTX_PP/QQ"
             ELSE IF greater(minus_A, plus_A) /\ greater(minus_B, plus_B)
             THEN "CTX_INS_B2A"
             ELSE IF greater(plus_A, minus_A) /\ greater(plus_B, minus_B)
             THEN "CTX_INS_A2B"
             ELSE "CTX_UNKNOWN"
        ELSE IF greater(minus_A, plus_A) /\ greater(minus_B, plus_B)
             THEN "CTX_PQ/QP"
             ELSE IF greater(minus_A, plus_A) /\ greater(plus_B, minus_B)
             THEN "CTX_INV_INS_B2A"
             ELSE IF greater(plus_A, minus_A) /\ greater(minus_B, plus_B)
             THEN "CTX_INV_INS_A2B"
             ELSE "CTX_UNKNOWN"

classify_simple_translocation(plus, minus) ==
    LET plus_A == plus.pos
        minus_A == minus.pos
        plus_B == plus.stop
        minus_B == minus.stop
    IN  IF plus.chrom # minus.chrom \/ plus.chr2 # minus.chr2
        THEN "TLOC_MISMATCH_CHROM"
        ELSE IF plus.strands = "+-"
        THEN IF greater(minus_A, plus_A) /\ greater(plus_B, minus_B)
             THEN "CTX_PP/QQ"
             ELSE IF greater(minus_A, plus_A) /\ greater(minus_B, plus_B)
             THEN "CTX_INS_B2A"
             ELSE IF greater(plus_A, minus_A) /\ greater(plus_B, minus_B)
             THEN "CTX_INS_A2B"
             ELSE "CTX_UNR"
        ELSE IF greater(minus_A, plus_A) /\ greater(minus_B, plus_B)
             THEN "CTX_PQ/QP"
             ELSE IF greater(minus_A, plus_A) /\ greater(plus_B, minus_B)
             THEN "CTX_INV_INS_B2A"
             ELSE IF greater(plus_A, minus_A) /\ greater(minus_B, plus_B)
             THEN "CTX_INV_INS_A2B"
             ELSE "CTX_UNR"

(***************************************************************************)
(* get_arms: the cytoband lookup answers 'p' or 'q' for each end of the    *)
(* plus breakend.                                                          *)
(***************************************************************************)
Arms == {"p", "q"}
get_arms == Arms \X Arms

(***************************************************************************)
(* ComplexSV.resolve_translocation                                         *)
(***************************************************************************)
\* An outcome that looks at the arms only: coordinate-identical breakends
\* with consistent arms are accepted.
TranslocationOutcome_arms_only(cpx_type, plus, minus, armA, armB) ==
    IF ContainsINS(cpx_type) THEN <<"INS", cpx_type>>
    ELSE IF cpx_type \in {"TLOC_MISMATCH_CHROM", "CTX_UNR"}
    THEN <<"UNR", cpx_type>>
    ELSE IF cpx_type = "CTX_PP/QQ"
    THEN IF armA = armB THEN <<"CTX", cpx_type>>
         ELSE <<"UNR", "CTX_PP/QQ_MISMATCH">>
    ELSE IF cpx_type = "CTX_PQ/QP"
    THEN IF armA # armB THEN <<"CTX", cpx_type>>
         ELSE <<"UNR", "CTX_PQ/QP_MISMATCH">>
    ELSE <<"EXC", cpx_type>>

\* Lines 202-226: svtype and final cpx_type; <<"EXC", t>> is the raise.
TranslocationOutcome(cpx_type, plus, minus, armA, armB) ==
    LET same_coords == plus.pos = minus.pos /\ plus.stop = minus.stop
    IN  IF ContainsINS(cpx_type) THEN <<"INS", cpx_type>>
        ELSE IF cpx_type \in {"TLOC_MISMATCH_CHROM", "CTX_UNR"}
        THEN <<"UNR", cpx_type>>
        ELSE IF cpx_type = "CTX_PP/QQ"
        THEN IF same_coords THEN <<"UNR", "CTX_PP/QQ_DUPLICATE_COORDS">>
             ELSE IF armA = armB THEN <<"CTX", cpx_type>>
             ELSE <<"UNR", "CTX_PP/QQ_MISMATCH">>
        ELSE IF cpx_type = "CTX_PQ/QP"
        THEN IF same_coords THEN <<"UNR", "CTX_PQ/QP_DUPLICATE_COORDS">>
             ELSE IF armA # armB THEN <<"CTX", cpx_type>>
             ELSE <<"UNR", "CTX_PQ/QP_MISMATCH">>
        ELSE <<"EXC", cpx_type>>

\* Lines 233-238.
TranslocationCTX(rec, plus) ==
    LET r1 == [rec EXCEPT !.chrom = plus.chrom, !.pos = plus.pos,
                          !.chr2 = plus.chr2]
    IN  [SetStop(r1, plus.stop) EXCEPT !.svlen = -1]

\* Lines 240-282.
TranslocationINS(rec, plus, minus, cpx_type) ==
    LET b2a == ContainsB2A(cpx_type)
        sink_chrom == IF b2a THEN plus.chrom ELSE plus.chr2
        source_chrom == IF b2a THEN plus.chr2 ELSE plus.chrom
        sink_start ==
            CASE cpx_type = "CTX_INS_B2A" -> plus.pos
              [] cpx_type = "CTX_INV_INS_B2A" -> plus.pos
              [] cpx_type = "CTX_INS_A2B" -> minus.stop
              [] OTHER -> plus.stop
        sink_end ==
            CASE cpx_type = "CTX_INS_B2A" -> minus.pos
              [] cpx_type = "CTX_INV_INS_B2A" -> minus.pos
              [] cpx_type = "CTX_INS_A2B" -> plus.stop
              [] OTHER -> minus.stop
        source_start ==
            CASE cpx_type = "CTX_INS_B2A" -> plus.stop
              [] cpx_type = "CTX_INV_INS_B2A" -> minus.stop
              [] OTHER -> minus.pos
        source_end ==
            CASE cpx_type = "CTX_INS_B2A" -> minus.stop
              [] cpx_type = "CTX_INV_INS_B2A" -> plus.stop
              [] OTHER -> plus.pos
        interval_type == IF ContainsINV(cpx_type) THEN "INV" ELSE "INS"
        r1 == [rec EXCEPT !.chrom = sink_chrom, !.pos = sink_start]
        r2 == SetStop(r1, sink_end)
    IN  [r2 EXCEPT !.chr2 = source_chrom,
                   !.svlen = Abs(source_end - source_start),
                   !.source = <<interval_type, source_chrom,
                                source_start, source_end>>]

resolve_translocation(c) ==
    LET pair == SortByStrands(tlocs(c.records))
        plus == pair[1]
        minus == pair[2]
        cls == classify_simple_translocation(plus, minus)
    IN  { LET o == TranslocationOutcome(cls, plus, minus, arms[1], arms[2])
              tagged == TagRecord(c.vcf_record, o[1], o[2])
          IN  IF o[1] = "EXC"
              THEN [c EXCEPT !.cpx_type = cls, !.arms = arms,
                             !.error = "Invalid cpx type"]
              ELSE [c EXCEPT
                      !.arms = arms,
                      !.svtype = o[1],
                      !.cpx_type = o[2],
                      !.vcf_record =
                          IF o[1] = "CTX" THEN TranslocationCTX(tagged, plus)
                          ELSE IF o[1] = "INS"
                          THEN TranslocationINS(tagged, plus, minus, o[2])
                          ELSE tagged]
          : arms \in get_arms }

(***************************************************************************)
(* classify_insertion (svtk/cxsv/cpx_tloc.py): the donor/acceptor          *)
(* direction of a breakend pair, or INS_UNCLASSIFIED.                      *)
(***************************************************************************)
classify_insertion(plus, minus) ==
    {"INS_A2B", "INS_B2A", "INS_UNCLASSIFIED"}

(***************************************************************************)
(* ComplexSV.resolve_insertion                                             *)
(***************************************************************************)
\* Lines 302-311: the acceptor (sink) and donor (source) intervals.
InsertionSink(plus, minus, cpx_type) ==
    IF cpx_type = "INS_B2A" THEN <<plus.pos, minus.pos>>
                            ELSE <<minus.stop, plus.stop>>

InsertionSource(plus, minus, cpx_type) ==
    IF cpx_type = "INS_B2A" THEN <<plus.stop, minus.stop>>
                            ELSE <<minus.pos, plus.pos>>

\* A sink check that lets a span of exactly MaxSinkSpan through.
SinkTooLarge_strict(sink) == sink[2] - sink[1] > MaxSinkSpan

\* Line 314: don't report insertions with large deletions at insertion site
SinkTooLarge(sink) == sink[2] - sink[1] >= MaxSinkSpan

\* Lines 329-334: a co-clustered insertion record becomes the emitted
\* record, with the union of both algorithm sets.
MergeInsertion(rec, ins) ==
    IF Len(ins) = 1
    THEN [ins[1] EXCEPT
            !.algs = SetToSortedSeq(Range(rec.algs) \cup Range(ins[1].algs))]
    ELSE rec

resolve_insertion(c) ==
    LET pair == SortByStrands(breakends(c.records))
        plus == pair[1]
        minus == pair[2]
    IN  { IF cpx_type = "INS_UNCLASSIFIED"
          THEN [c EXCEPT !.cpx_type = cpx_type, !.svtype = "UNR"]
          ELSE LET tagged == TagRecord(c.vcf_record, "INS", cpx_type)
                   sink == InsertionSink(plus, minus, cpx_type)
                   source == InsertionSource(plus, minus, cpx_type)
                   r1 == [tagged EXCEPT !.chrom = plus.chrom, !.pos = sink[1]]
                   r2 == SetStop(r1, sink[2])
                   r3 == [r2 EXCEPT
                            !.chr2 = plus.chrom,
                            !.svlen = Abs(source[2] - source[1]),
                            !.source = <<"INS", plus.chrom,
                                         source[1], source[2]>>]
               IN  IF SinkTooLarge(sink)
                   THEN set_unresolved([c EXCEPT !.vcf_record = tagged])
                   ELSE [c EXCEPT
                           !.svtype = "INS",
                           !.cpx_type = cpx_type,
                           !.vcf_record =
                               MergeInsertion(r3, insertions(c.records))]
          : cpx_type \in classify_insertion(plus, minus) }

(***************************************************************************)
(* ComplexSV.report_simple_insertion                                       *)
(***************************************************************************)
report_simple_insertion(c) ==
    LET bnds == breakends(c.records)
        cn == cnvs(c.records)
        ins == insertions(c.records)
    IN  IF Len(bnds) > 0 /\ Len(cn) = 0
        THEN LET record == ins[1]
                 r1 == SetAlts(c.vcf_record, record.alts)
             IN  [c EXCEPT
                    !.cpx_type = record.alts,
                    !.svtype = "INS",
                    !.vcf_record = [r1 EXCEPT !.svtype = "INS",
                                              !.cpx_type = record.alts,
                                              !.chr2 = record.chr2,
                                              !.svlen = record.svlen]]
        ELSE IF Len(cn) = 1 /\ Len(bnds) = 0
        THEN IF cn[1].svtype = "DUP"
             THEN LET record == cn[1]
                      r1 == SetAlts(c.vcf_record, record.alts)
                  IN  [c EXCEPT
                         !.svtype = "DUP",
                         !.vcf_record = [r1 EXCEPT !.svtype = "DUP",
                                                   !.chr2 = record.chr2,
                                                   !.svlen = record.svlen]]
             ELSE set_unresolved(c)
        ELSE set_unresolved(c)

(***************************************************************************)
(* ComplexSV.resolve                                                       *)
(***************************************************************************)
\* Lines 63-70 and 75-82: the dispatch on a resolvable cluster type.
Dispatch(c) ==
    CASE c.cluster_type = "CANDIDATE_INVERSION" -> resolve_inversion(c)
      [] c.cluster_type = "CANDIDATE_TRANSLOCATION" -> resolve_translocation(c)
      [] c.cluster_type = "CANDIDATE_INSERTION" -> resolve_insertion(c)
      [] OTHER -> {report_simple_insertion(c)}

\* Lines 72-74: drop SR-only breakpoints, organize and classify again.
FilterAndReclassify(c, has_evidence) ==
    LET clean == remove_SR_only_breakpoints(c.records, has_evidence)
    IN  [c EXCEPT !.records = clean,
                  !.cluster_type = set_cluster_type(clean),
                  !.n_det = c.n_det + 1,
                  !.n_filter = c.n_filter + 1]

\* A resolve() that filters SR-only breakpoints before it dispatches, also
\* when the first determination is resolvable.
resolve_always_filter(c, has_evidence) ==
    LET t1 == set_cluster_type(c.records)
        c1 == [c EXCEPT !.cluster_type = t1, !.first_type = t1,
                        !.n_det = c.n_det + 1]
        c2 == FilterAndReclassify(c1, has_evidence)
    IN  IF c2.cluster_type \in ResolvableTypes
        THEN Dispatch(c2)
        ELSE {set_unresolved(c2)}

resolve(c, has_evidence) ==
    LET t1 == set_cluster_type(c.records)
        c1 == [c EXCEPT !.cluster_type = t1, !.first_type = t1,
                        !.n_det = c.n_det + 1]
    IN  IF t1 \in ResolvableTypes
        THEN Dispatch(c1)
        ELSE LET c2 == FilterAndReclassify(c1, has_evidence)
             IN  IF c2.cluster_type \in ResolvableTypes
                 THEN Dispatch(c2)
                 ELSE {set_unresolved(c2)}

(***************************************************************************)
(* ComplexSV.clean_record, ComplexSV.record_ids                            *)
(***************************************************************************)
record_ids(c) == Ids(c.records)

\* A bookkeeping that lists the members in record order, unsorted.
clean_record_unsorted(c) ==
    LET sources == UNION {Range(c.records[i].algs) : i \in 1..Len(c.records)}
    IN  [c EXCEPT !.vcf_record.algs = SetToSortedSeq(sources),
                  !.vcf_record.members = record_ids(c)]

clean_record(c) ==
    LET sources == UNION {Range(c.records[i].algs) : i \in 1..Len(c.records)}
    IN  [c EXCEPT !.vcf_record.algs = SetToSortedSeq(sources),
                  !.vcf_record.members = Sorted(record_ids(c))]

\* ComplexSV(records, cytobands, mei_bed): every object the constructor can
\* return; an exception raised by resolve() leaves clean_record out.
ComplexSV(records, has_evidence) ==
    {IF c.error # NA THEN c ELSE clean_record(c) :
        c \in resolve(NewComplexSV(records), has_evidence)}

(***************************************************************************)
(* resolve_complex_sv: the loop over the clusters                          *)
(***************************************************************************)
\* The random suffix of a resolved id / an unresolved EVENT id: a fresh
\* token per draw.
ResolvedId(n) == 100 + n
UnresolvedVid(n) == 200 + n

\* A driver that counts every record of the cluster as consumed, the ones
\* the SR-only filter dropped included.
ConsumedIds_cluster(ids, c) == ids \cup Range(Ids(c.cluster))

\* A driver that keeps only the last ComplexSV's ids.
ConsumedIds_overwrite(ids, c) == Range(record_ids(c))

\* Lines 143 and 152: cpx_record_ids.union(cpx.record_ids)
ConsumedIds(ids, c) == ids \cup Range(record_ids(c))

AllInsertions(cluster) == \A i \in 1..Len(cluster) : cluster[i].svtype = "INS"

\* Lines 157-161: the members of an unresolved cluster, tagged.
UnresolvedMembers(c, vid) ==
    [i \in 1..Len(c.records) |->
        [c.records[i] EXCEPT !.event = vid, !.cpx_type = c.cpx_type,
                             !.unresolved = TRUE]]

\* Lines 154-167: what one ComplexSV appends to the queue.
QueueEntries(c, n) ==
    IF c.svtype = "UNR"
    THEN UnresolvedMembers(c, UnresolvedVid(n))
    ELSE <<WithId(c.vcf_record, ResolvedId(n))>>

\* Lines 132-135: the rescan of a single-ender inversion.  The call passes
\* pe_blacklist=..., a keyword rescan_single_ender (rescan_single_enders.py
\* line 76) does not take: Python raises TypeError before the body runs.
RescanSingleEnder ==
    /\ pc = "clusters"
    /\ ci <= Len(clusters)
    /\ Len(clusters[ci]) = 1
    /\ clusters[ci][1].svtype = "INV"
    /\ pc' = "TypeError"
    /\ UNCHANGED rescan
    /\ UNCHANGED <<vcf, header_evidence, clusters, ci, ins_i, built,
                   cpx_records, cpx_record_ids, vi, curr_record, curr_cpx,
                   out, queued>>

\* Lines 140-148: one iteration of the loop over an all-insertion cluster.
ResolveInsertionRecord ==
    /\ pc = "clusters"
    /\ ci <= Len(clusters)
    /\ ~(Len(clusters[ci]) = 1 /\ clusters[ci][1].svtype = "INV")
    /\ AllInsertions(clusters[ci])
    /\ \E c \in ComplexSV(<<clusters[ci][ins_i]>>, header_evidence) :
          /\ IF c.error # NA
             THEN /\ pc' = "Exception"
                  /\ UNCHANGED <<built, cpx_records, cpx_record_ids, ci,
                                 ins_i>>
             ELSE /\ built' = Append(built, c)
                  /\ cpx_record_ids' = ConsumedIds(cpx_record_ids, c)
                  /\ cpx_records' =
                        Append(cpx_records,
                               WithId(c.vcf_record, ResolvedId(Len(built) + 1)))
                  /\ IF ins_i < Len(clusters[ci])
                     THEN ins_i' = ins_i + 1 /\ ci' = ci
                     ELSE ins_i' = 1 /\ ci' = ci + 1
                  /\ pc' = pc
    /\ UNCHANGED rescan
    /\ UNCHANGED <<vcf, header_evidence, clusters, vi, curr_record, curr_cpx,
                   out, queued>>

\* Lines 150-167: any other cluster.
ResolveCluster ==
    /\ pc = "clusters"
    /\ ci <= Len(clusters)
    /\ ~(Len(clusters[ci]) = 1 /\ clusters[ci][1].svtype = "INV")
    /\ ~AllInsertions(clusters[ci])
    /\ \E c \in ComplexSV(clusters[ci], header_evidence) :
          /\ IF c.error # NA
             THEN /\ pc' = "Exception"
                  /\ UNCHANGED <<built, cpx_records, cpx_record_ids, ci>>
             ELSE /\ built' = Append(built, c)
                  /\ cpx_record_ids' = ConsumedIds(cpx_record_ids, c)
                  /\ cpx_records' =
                        cpx_records \o QueueEntries(c, Len(built) + 1)
                  /\ ci' = ci + 1
                  /\ pc' = pc
    /\ UNCHANGED rescan
    /\ UNCHANGED <<vcf, header_evidence, clusters, ins_i, vi, curr_record,
                   curr_cpx, out, queued>>

\* Line 170: vcf.reset(), then the call of _merge_records.
Reset ==
    /\ pc = "clusters"
    /\ ci > Len(clusters)
    /\ vi' = 1
    /\ queued' = cpx_records
    /\ pc' = "merge_init"
    /\ UNCHANGED rescan
    /\ UNCHANGED <<vcf, header_evidence, clusters, ci, ins_i, built,
                   cpx_records, cpx_record_ids, curr_record, curr_cpx, out>>

(***************************************************************************)
(* _merge_records                                                          *)
(***************************************************************************)
\* svu.is_smaller_chrom: chromosomes compare by contig rank.
is_smaller_chrom(chrom1, chrom2) == chrom1 < chrom2

\* _next_record: the item and the iterator position after it.
next_record(i) == IF i <= Len(vcf) THEN <<vcf[i], i + 1>> ELSE <<None, i>>

\* _next_cpx: the item and the deque after popleft().
next_cpx(q) == IF q # <<>> THEN <<Head(q), Tail(q)>> ELSE <<None, q>>

\* A comparison that lets the synthesized record go first on a tie.
RecordFirst_strict(record, cpx_rec) ==
    IF record.chrom = cpx_rec.chrom
    THEN record.pos < cpx_rec.pos
    ELSE is_smaller_chrom(record.chrom, cpx_rec.chrom)

\* Lines 66-79: whether the original record goes first.
RecordFirst(record, cpx_rec) ==
    IF record.chrom = cpx_rec.chrom
    THEN record.pos <= cpx_rec.pos
    ELSE is_smaller_chrom(record.chrom, cpx_rec.chrom)

\* Lines 56-57: initialize merge.
MergeInit ==
    /\ pc = "merge_init"
    /\ curr_record' = next_record(vi)[1]
    /\ vi' = next_record(vi)[2]
    /\ curr_cpx' = next_cpx(cpx_records)[1]
    /\ cpx_records' = next_cpx(cpx_records)[2]
    /\ pc' = "merge"
    /\ UNCHANGED rescan
    /\ UNCHANGED <<vcf, header_evidence, clusters, ci, ins_i, built,
                   cpx_record_ids, out, queued>>

\* Lines 61-63: remove VCF records that were included in a complex event.
MergeSkip ==
    /\ pc = "merge"
    /\ ~IsNone(curr_record) /\ ~IsNone(curr_cpx)
    /\ curr_record.id \in cpx_record_ids
    /\ curr_record' = next_record(vi)[1]
    /\ vi' = next_record(vi)[2]
    /\ UNCHANGED rescan
    /\ UNCHANGED <<vcf, header_evidence, clusters, ci, ins_i, pc, built,
                   cpx_records, cpx_record_ids, curr_cpx, out, queued>>

\* Lines 68-69 and 75-76: yield the original record.
MergeYieldRecord ==
    /\ pc = "merge"
    /\ ~IsNone(curr_record) /\ ~IsNone(curr_cpx)
    /\ curr_record.id \notin cpx_record_ids
    /\ RecordFirst(curr_record, curr_cpx)
    /\ out' = Append(out, curr_record)
    /\ curr_record' = next_record(vi)[1]
    /\ vi' = next_record(vi)[2]
    /\ UNCHANGED rescan
    /\ UNCHANGED <<vcf, header_evidence, clusters, ci, ins_i, pc, built,
                   cpx_records, cpx_record_ids, curr_cpx, queued>>

\* Lines 71-72 and 78-79: yield the synthesized record.
MergeYieldCpx ==
    /\ pc = "merge"
    /\ ~IsNone(curr_record) /\ ~IsNone(curr_cpx)
    /\ curr_record.id \notin cpx_record_ids
    /\ ~RecordFirst(curr_record, curr_cpx)
    /\ out' = Append(out, curr_cpx)
    /\ curr_cpx' = next_cpx(cpx_records)[1]
    /\ cpx_records' = next_cpx(cpx_records)[2]
    /\ UNCHANGED rescan
    /\ UNCHANGED <<vcf, header_evidence, clusters, ci, ins_i, pc, built,
                   cpx_record_ids, vi, curr_record, queued>>

\* Lines 82-84: the original stream is exhausted; chain([curr_cpx],
\* cpx_records) is yielded whole, curr_cpx included even when it is None.
DrainCpx ==
    /\ pc = "merge"
    /\ IsNone(curr_record)
    /\ out' = out \o <<curr_cpx>> \o cpx_records
    /\ cpx_records' = <<>>
    /\ pc' = "done"
    /\ UNCHANGED rescan
    /\ UNCHANGED <<vcf, header_evidence, clusters, ci, ins_i, built,
                   cpx_record_ids, vi, curr_record, curr_cpx, queued>>

\* A drain of the original stream that forgets the consumed ids.
DrainVcf_unfiltered ==
    /\ pc = "merge"
    /\ ~IsNone(curr_record)
    /\ IsNone(curr_cpx)
    /\ out' = out \o <<curr_record>> \o SubSeq(vcf, vi, Len(vcf))
    /\ vi' = Len(vcf) + 1
    /\ pc' = "done"
    /\ UNCHANGED rescan
    /\ UNCHANGED <<vcf, header_evidence, clusters, ci, ins_i, built,
                   cpx_records, cpx_record_ids, curr_record, curr_cpx,
                   queued>>

\* Lines 86-89: the queue is exhausted; the rest of the original stream is
\* yielded, still without the consumed ids.
DrainVcf ==
    /\ pc = "merge"
    /\ ~IsNone(curr_record)
    /\ IsNone(curr_cpx)
    /\ out' = out \o SelectSeq(<<curr_record>> \o SubSeq(vcf, vi, Len(vcf)),
                               LAMBDA r : r.id \notin cpx_record_ids)
    /\ vi' = Len(vcf) + 1
    /\ pc' = "done"
    /\ UNCHANGED rescan
    /\ UNCHANGED <<vcf, header_evidence, clusters, ci, ins_i, built,
                   cpx_records, cpx_record_ids, curr_record, curr_cpx,
                   queued>>

MergeNext ==
    \/ MergeInit
    \/ MergeSkip
    \/ MergeYieldRecord
    \/ MergeYieldCpx
    \/ DrainCpx
    \/ DrainVcf

Next ==
    \/ RescanSingleEnder
    \/ ResolveInsertionRecord
    \/ ResolveCluster
    \/ Reset
    \/ MergeInit
    \/ MergeSkip
    \/ MergeYieldRecord
    \/ MergeYieldCpx
    \/ DrainCpx
    \/ DrainVcf

(***************************************************************************)
(* rescan_single_ender (svtk/cxsv/rescan_single_enders.py)                 *)
(***************************************************************************)
\* DiscPair(*p.split()): one discordant pair of the evidence file.
DiscPair(chrA, posA, strandA, chrB, posB, strandB, sample) ==
    [chrA |-> chrA, posA |-> posA, strandA |-> strandA, chrB |-> chrB,
     posB |-> posB, strandB |-> strandB, sample |-> sample]

is_inversion(p) == p.chrA = p.chrB /\ p.strandA = p.strandB

MaxOf(S) == CHOOSE x \in S : \A y \in S : y <= x
MinOf(S) == CHOOSE x \in S : \A y \in S : x <= y

\* The state of a call: its arguments (record, pe, called, min_frac_samples
\* as numerator / denominator), its locals, and what it returned or raised.
RescanIdle ==
    [pc |-> "idle", record |-> None, called |-> {}, min_frac |-> <<1, 2>>,
     pe |-> <<>>, pairs |-> <<>>, clusters |-> <<>>, cluster |-> <<>>,
     supporting |-> <<>>, result |-> None, error |-> NA]

\* Lines 68-69: a record that is neither '++' nor '--'.
InvalidOrientation(record) == record.strands \notin {"++", "--"}

\* A match that takes the extremal coordinates over all pairs of the
\* cluster, whatever their strand.
match_cluster_any_strand(record, cluster, d) ==
    LET own == IF record.strands = "++" THEN "+" ELSE "-"
        startsA == {cluster[i].posA : i \in 1..Len(cluster)}
        endsB == {cluster[i].posB : i \in 1..Len(cluster)}
    IN  IF startsA = {}
        THEN FALSE
        ELSE LET c_start == IF own = "+" THEN MaxOf(startsA) ELSE MinOf(startsA)
                 c_end == IF own = "+" THEN MaxOf(endsB) ELSE MinOf(endsB)
             IN  /\ Abs(record.pos - c_start) < d
                 /\ Abs(record.stop - c_end) < d

\* Lines 49-66 and 72, for a '++' or '--' record.
match_cluster(record, cluster, d) ==
    LET own == IF record.strands = "++" THEN "+" ELSE "-"
        startsA == {cluster[i].posA : i \in {j \in 1..Len(cluster) :
                                               cluster[j].strandA = own}}
        endsB == {cluster[i].posB : i \in {j \in 1..Len(cluster) :
                                             cluster[j].strandB = own}}
    IN  IF startsA = {}
        THEN FALSE
        ELSE LET c_start == IF own = "+" THEN MaxOf(startsA) ELSE MinOf(startsA)
                 c_end == IF own = "+" THEN MaxOf(endsB) ELSE MinOf(endsB)
             IN  /\ Abs(record.pos - c_start) < d
                 /\ Abs(record.stop - c_end) < d

\* pe.fetch(chrom:pos-window-pos+window): the pairs whose first end lies in
\* the region, in file order.
fetch(pe, chrom, from, to) ==
    SelectSeq(pe, LAMBDA p : p.chrA = chrom /\ from <= p.posA /\ p.posA <= to)

\* GenomeSLINK(pairs, dist).cluster(): the connected components of the
\* pairs, two pairs being linked when both ends are within dist; clusters
\* in first-encountered order, members in input order.
Linked(p, q, d) ==
    /\ p.chrA = q.chrA /\ p.chrB = q.chrB
    /\ Abs(p.posA - q.posA) <= d
    /\ Abs(p.posB - q.posB) <= d

RECURSIVE Component(_, _, _)
Component(seen, pairs, d) ==
    LET more == {j \in 1..Len(pairs) :
                    \E i \in seen : Linked(pairs[i], pairs[j], d)}
    IN  IF more \subseteq seen THEN seen
        ELSE Component(seen \cup more, pairs, d)

RECURSIVE Components(_, _, _)
Components(todo, pairs, d) ==
    IF todo = {} THEN <<>>
    ELSE LET first == MinOf(todo)
             comp == Component({first}, pairs, d)
         IN  <<comp>> \o Components(todo \ comp, pairs, d)

GenomeSLINK(pairs, d) ==
    LET comps == Components(1..Len(pairs), pairs, d)
    IN  [k \in 1..Len(comps) |->
            LET idx == SelectSeq([i \in 1..Len(pairs) |-> i],
                                 LAMBDA i : i \in comps[k])
            IN  [i \in 1..Len(idx) |-> pairs[idx[i]]]]

\* max(clusters, key=len): the first of the longest clusters.
Largest(cs) ==
    cs[MinOf({k \in 1..Len(cs) : \A j \in 1..Len(cs) : Len(cs[j]) <= Len(cs[k])})]

\* Lines 133-138: the called samples with at least min_support supporting
\* pairs.
n_supported_samples(supporting, called) ==
    Cardinality({sm \in called :
        Len(SelectSeq(supporting, LAMBDA p : p.sample = sm)) >= min_support})

\* A threshold the fraction has to exceed.
EnoughSamples_strict(n, n_called, frac) == n * frac[2] > frac[1] * n_called

\* Line 139: n_supported_samples / len(called) >= min_frac_samples, the
\* quotient and the fraction num / den compared as rationals.
EnoughSamples(n, n_called, frac) == n * frac[2] >= frac[1] * n_called

\* record.id + '_OPPSTRAND'
OppStrandId(id) == id + 1000

\* A complementary record spanning the smallest coordinates of '+' pairs.
make_new_record_min(pairs, old_record) ==
    LET plus == pairs[1].strandA = "+"
        As == {pairs[i].posA : i \in 1..Len(pairs)}
        Bs == {pairs[i].posB : i \in 1..Len(pairs)}
    IN  [SetStop([old_record EXCEPT !.id = OppStrandId(old_record.id),
                                    !.pos = MinOf(As)], MinOf(Bs))
            EXCEPT !.strands = IF plus THEN "++" ELSE "--",
                   !.svlen = MinOf(Bs) - MinOf(As),
                   !.algs = <<4>>]

\* Lines 145-162, for a non-empty list of pairs.
make_new_record(pairs, old_record) ==
    LET plus == pairs[1].strandA = "+"
        As == {pairs[i].posA : i \in 1..Len(pairs)}
        Bs == {pairs[i].posB : i \in 1..Len(pairs)}
        pos == IF plus THEN MaxOf(As) ELSE MinOf(As)
        stop == IF plus THEN MaxOf(Bs) ELSE MinOf(Bs)
    IN  [SetStop([old_record EXCEPT !.id = OppStrandId(old_record.id),
                                    !.pos = pos], stop)
            EXCEPT !.strands = IF plus THEN "++" ELSE "--",
                   !.svlen = stop - pos,
                   !.algs = <<4>>]

\* Lines 110-116: select the pairs nearby the record, restricted to
\* inversion pairs of the called samples.
RescanFetch ==
    /\ rescan.pc = "fetch"
    /\ LET r == rescan.record
           fetched == fetch(rescan.pe, r.chrom, r.pos - window, r.pos + window)
       IN  rescan' = [rescan EXCEPT
              !.pairs = SelectSeq(fetched, LAMBDA p :
                            p.sample \in rescan.called /\ is_inversion(p)),
              !.pc = "cluster"]
    /\ UNCHANGED <<vcf, header_evidence, clusters, ci, ins_i, pc, built,
                   cpx_records, cpx_record_ids, vi, curr_record, curr_cpx,
                   out, queued>>

\* Lines 119-120: cluster the pairs and keep the clusters that match the
\* record; match_cluster is called with window as its distance, and raises
\* on a record that is neither '++' nor '--'.
RescanCluster ==
    /\ rescan.pc = "cluster"
    /\ LET cs == GenomeSLINK(rescan.pairs, dist)
       IN  IF cs # <<>> /\ InvalidOrientation(rescan.record)
           THEN rescan' = [rescan EXCEPT !.error = "Exception", !.pc = "done"]
           ELSE rescan' = [rescan EXCEPT
                   !.clusters = SelectSeq(cs, LAMBDA c :
                                    match_cluster(rescan.record, c, window)),
                   !.pc = "select"]
    /\ UNCHANGED <<vcf, header_evidence, clusters, ci, ins_i, pc, built,
                   cpx_records, cpx_record_ids, vi, curr_record, curr_cpx,
                   out, queued>>

\* Lines 123-126: no cluster fails the site, otherwise take the largest.
RescanSelect ==
    /\ rescan.pc = "select"
    /\ IF Len(rescan.clusters) = 0
       THEN rescan' = [rescan EXCEPT !.result = None, !.pc = "done"]
       ELSE rescan' = [rescan EXCEPT !.cluster = Largest(rescan.clusters),
                                     !.pc = "support"]
    /\ UNCHANGED <<vcf, header_evidence, clusters, ci, ins_i, pc, built,
                   cpx_records, cpx_record_ids, vi, curr_record, curr_cpx,
                   out, queued>>

\* Lines 129-142: count the support of the missing strand and decide.
\* make_new_record reads pairs[0]: an empty list raises IndexError.
RescanSupport ==
    /\ rescan.pc = "support"
    /\ LET missing_strand == IF rescan.record.strands = "--" THEN "+" ELSE "-"
           supporting_pairs ==
               SelectSeq(rescan.cluster, LAMBDA p : p.strandA = missing_strand)
           n == n_supported_samples(supporting_pairs, rescan.called)
       IN  IF EnoughSamples(n, Cardinality(rescan.called), rescan.min_frac)
           THEN IF supporting_pairs = <<>>
                THEN rescan' = [rescan EXCEPT !.supporting = supporting_pairs,
                                              !.error = "IndexError",
                                              !.pc = "done"]
                ELSE rescan' = [rescan EXCEPT
                        !.supporting = supporting_pairs,
                        !.result = make_new_record(supporting_pairs,
                                                   rescan.record),
                        !.pc = "done"]
           ELSE rescan' = [rescan EXCEPT !.supporting = supporting_pairs,
                                         !.result = None, !.pc = "done"]
    /\ UNCHANGED <<vcf, header_evidence, clusters, ci, ins_i, pc, built,
                   cpx_records, cpx_record_ids, vi, curr_record, curr_cpx,
                   out, queued>>

RescanNext ==
    \/ RescanFetch
    \/ RescanCluster
    \/ RescanSelect
    \/ RescanSupport

(***************************************************************************)
(* Inputs                                                                  *)
(***************************************************************************)
\* Algorithm names, alphabetically: a record's ALGORITHMS is a tuple of
\* indices into this table.
AlgNames == <<"delly", "manta", "melt", "rescan", "wham">>

INV(strands, pos, stop, sr) == Rec("INV", 1, 1, pos, stop, strands, sr, <<2>>)
BND(strands, pos, stop, sr) == Rec("BND", 1, 1, pos, stop, strands, sr, <<5, 2>>)
TLOC(strands, pos, stop, sr) == Rec("BND", 1, 2, pos, stop, strands, sr, <<2, 1>>)
CNV(svtype, pos, stop, sr) == Rec(svtype, 1, 1, pos, stop, NA, sr, <<1>>)
INS(pos, sr) == Rec("INS", 1, 1, pos, pos + 1, "+-", sr, <<3>>)
\* An insertion whose source lies on another chromosome (CHR2 # chrom), as
\* resolve_translocation itself emits them (lines 266-271).
INSX(pos, sr) == Rec("INS", 1, 2, pos, pos + 1, "+-", sr, <<3>>)

\* Cluster compositions: one record of every kind, some of them SR-only.
CompShapes ==
    {INV("++", 100, 300, FALSE), INV("--", 100, 300, FALSE),
     INV("++", 120, 300, TRUE),
     TLOC("+-", 130, 5000, FALSE), TLOC("-+", 130, 5010, FALSE),
     TLOC("++", 140, 5000, FALSE), TLOC("-+", 145, 5000, TRUE),
     BND("+-", 150, 5000, FALSE), BND("-+", 150, 5010, FALSE),
     BND("++", 160, 5000, FALSE), BND("+-", 170, 5000, TRUE),
     CNV("DEL", 180, 280, FALSE), CNV("DUP", 190, 290, FALSE),
     INS(210, FALSE), INSX(220, FALSE)}

\* Pair geometries: coordinates on both sides of every comparison the
\* classifiers make (the 50 bp buffer, the 100 bp sink span, min / max).
GeoShapes ==
    {INV(st, c[1], c[2], FALSE) :
        st \in {"++", "--"}, c \in {<<100, 300>>, <<160, 250>>, <<100, 250>>}}
    \cup {TLOC(st, p, e, FALSE) :
        st \in {"++", "+-", "-+", "--"}, p \in {95, 100, 150},
        e \in {5000, 5010, 5060}}
    \cup {Rec("BND", 2, 1, 100, 5000, "-+", FALSE, <<2>>)}
    \cup {BND(st, p, e, FALSE) :
        st \in {"+-", "-+"}, p \in {100, 199, 200, 250},
        e \in {5000, 5099, 5100, 5150}}

\* Streams of several clusters.
PipeShapes ==
    {INV("++", 100, 300, FALSE), INV("--", 160, 250, FALSE),
     INV("++", 120, 300, TRUE),
     BND("+-", 100, 5000, FALSE), BND("-+", 110, 5010, FALSE),
     TLOC("+-", 150, 5000, FALSE), TLOC("-+", 130, 5010, FALSE),
     CNV("DEL", 200, 280, FALSE), INS(210, FALSE)}

\* A stream sorted by (contig rank, position).
StreamSorted(s) ==
    \A i \in 1..Len(s) - 1 :
        \/ s[i].chrom < s[i + 1].chrom
        \/ s[i].chrom = s[i + 1].chrom /\ s[i].pos <= s[i + 1].pos

\* The records of a stream carry their index as id.
Numbered(s) == [i \in 1..Len(s) |-> WithId(s[i], i)]

\* link_cpx: disjoint clusters of the stream's records, in the order of
\* their first member, members in stream order.  label[i] = 0 leaves record
\* i unclustered; labels are numbered in order of first use.
MaxLabel(label, n) ==
    IF n = 0 THEN 0
    ELSE CHOOSE m \in 0..Len(label) :
            /\ \A i \in 1..n : label[i] <= m
            /\ (m = 0 \/ \E i \in 1..n : label[i] = m)

Canonical(label) ==
    \A i \in 1..Len(label) : label[i] <= MaxLabel(label, i - 1) + 1

link_cpx(stream, label) ==
    [j \in 1..MaxLabel(label, Len(label)) |->
        SelectSeq(stream, LAMBDA r : label[r.id] = j)]

InitRest ==
    /\ ci = 1
    /\ ins_i = 1
    /\ pc = "clusters"
    /\ built = <<>>
    /\ cpx_records = <<>>
    /\ cpx_record_ids = {}
    /\ vi = Len(vcf) + 1
    /\ curr_record = None
    /\ curr_cpx = None
    /\ out = <<>>
    /\ queued = <<>>
    /\ rescan = RescanIdle

\* One run of resolve_complex_sv over a stream of up to MaxRecs records.
Init ==
    /\ \E n \in 0..MaxRecs :
          \E s \in [1..n -> PipeShapes] :
             /\ StreamSorted(s)
             /\ vcf = Numbered(s)
             /\ \E label \in [1..n -> 0..n] :
                   /\ Canonical(label)
                   /\ clusters = link_cpx(Numbered(s), label)
    /\ header_evidence \in BOOLEAN
    /\ InitRest

Spec == Init /\ [][Next]_vars

\* One run over a stream that is a single cluster: every composition of up
\* to MaxCluster records, and every geometry of a pair.
InitComposition ==
    /\ \E n \in 1..MaxCluster :
          \E s \in [1..n -> CompShapes] :
             /\ StreamSorted(s)
             /\ vcf = Numbered(s)
    /\ header_evidence \in BOOLEAN
    /\ clusters = <<vcf>>
    /\ InitRest

InitGeometry ==
    /\ \E a \in GeoShapes, b \in GeoShapes :
          /\ StreamSorted(<<a, b>>)
          /\ vcf = Numbered(<<a, b>>)
    /\ header_evidence = TRUE
    /\ clusters = <<vcf>>
    /\ InitRest

InitResolve == InitComposition \/ InitGeometry

SpecResolve == InitResolve /\ [][Next]_vars

\* _merge_records alone, on any sorted original stream, any synthesized
\* queue and any consumed-id set.
MergeCoords == {<<1, 10>>, <<1, 20>>, <<2, 10>>}

Original(c) == Rec("DEL", c[1], c[1], c[2], c[2] + 5, NA, FALSE, <<1>>)
Synthesized(c) ==
    [Rec("INS", c[1], c[1], c[2], c[2] + 5, NA, FALSE, <<1>>)
        EXCEPT !.cpx_type = "INS_A2B"]

QueueNumbered(q) == [i \in 1..Len(q) |-> WithId(q[i], ResolvedId(i))]

InitMerge ==
    /\ \E n \in 0..MaxStream :
          \E s \in [1..n -> {Original(c) : c \in MergeCoords}] :
             /\ StreamSorted(s)
             /\ vcf = Numbered(s)
             /\ cpx_record_ids \in SUBSET (1..n)
    /\ \E m \in 0..MaxQueue :
          \E q \in [1..m -> {Synthesized(c) : c \in MergeCoords}] :
             /\ cpx_records = QueueNumbered(q)
             /\ queued = QueueNumbered(q)
    /\ header_evidence = TRUE
    /\ clusters = <<>>
    /\ ci = 1
    /\ ins_i = 1
    /\ pc = "merge_init"
    /\ built = <<>>
    /\ vi = 1
    /\ curr_record = None
    /\ curr_cpx = None
    /\ out = <<>>
    /\ rescan = RescanIdle

SpecMerge == InitMerge /\ [][MergeNext]_vars

\* One call of rescan_single_ender with its default parameters, on a
\* single-ender inversion at 1000-2000 and an evidence file holding up to
\* MaxPairs copies of each kind of pair.
Samples == {"s1", "s2"}

PairShapes ==
    <<DiscPair(1, 900, "+", 1, 1900, "+", "s1"),    \* '+' pair of s1
      DiscPair(1, 920, "+", 1, 1850, "+", "s2"),    \* '+' pair of s2
      DiscPair(1, 950, "+", 1, 1800, "+", "s1"),    \* another '+' pair of s1
      DiscPair(1, 960, "+", 1, 1960, "+", "s3"),    \* sample not called
      DiscPair(1, 970, "+", 2, 1970, "+", "s1"),    \* not an inversion pair
      DiscPair(1, 1010, "-", 1, 2010, "-", "s1"),   \* '-' pair at the record
      DiscPair(1, 1400, "-", 1, 2400, "-", "s2"),   \* '-' pairs further off
      DiscPair(1, 1600, "+", 1, 2600, "+", "s1"),   \* outside the window
      DiscPair(1, 1500, "-", 1, 2500, "-", "s1")>>  \* exactly window away

\* How many copies of each shape the file may hold.
ShapeLimit == <<MaxPairs, MaxPairs, 1, 1, 1, 1, 2, 1, 1>>

RECURSIVE Repeat(_, _)
Repeat(x, n) == IF n = 0 THEN <<>> ELSE <<x>> \o Repeat(x, n - 1)

RECURSIVE EvidenceFile(_, _)
EvidenceFile(count, k) ==
    IF k > Len(PairShapes) THEN <<>>
    ELSE Repeat(PairShapes[k], count[k]) \o EvidenceFile(count, k + 1)

InitRescan ==
    /\ \E count \in [1..Len(PairShapes) -> 0..MaxPairs] :
          /\ \A k \in 1..Len(PairShapes) : count[k] <= ShapeLimit[k]
          /\ count[1] \in {0, 1, MaxPairs}
          /\ count[2] \in {0, 1, MaxPairs}
          /\ \E st \in {"++", "--", "+-"}, cl \in {{"s1"}, {"s1", "s2"}},
                mf \in {<<0, 1>>, <<1, 2>>} :
                rescan = [RescanIdle EXCEPT
                            !.pc = "fetch",
                            !.record = WithId(INV(st, 1000, 2000, FALSE), 1),
                            !.called = cl,
                            !.min_frac = mf,
                            !.pe = EvidenceFile(count, 1)]
    /\ vcf = <<>>
    /\ header_evidence = TRUE
    /\ clusters = <<>>
    /\ ci = 1
    /\ ins_i = 1
    /\ pc = "done"
    /\ built = <<>>
    /\ cpx_records = <<>>
    /\ cpx_record_ids = {}
    /\ vi = 1
    /\ curr_record = None
    /\ curr_cpx = None
    /\ out = <<>>
    /\ queued = <<>>

SpecRescan == InitRescan /\ [][RescanNext]_vars

(***************************************************************************)
(* Properties of resolve_complex_sv and ComplexSV                          *)
(***************************************************************************)
Count(x, s) == Cardinality({k \in 1..Len(s) : s[k] = x})

MemberIds(c) == Range(record_ids(c))

\* C1: over one run of resolve_complex_sv, no input record id is in the
\* record_ids of two different ComplexSV results, and cpx_record_ids is
\* exactly the union of the final member lists of the ComplexSV built so far.
C1_DisjointUnion ==
    /\ \A i, j \in 1..Len(built) :
          i # j => MemberIds(built[i]) \cap MemberIds(built[j]) = {}
    /\ cpx_record_ids = UNION {MemberIds(built[i]) : i \in 1..Len(built)}

\* A finished run that built two ComplexSV, one of them with two members.
C1_Witness ==
    /\ pc = "done"
    /\ Len(built) >= 2
    /\ \E i \in 1..Len(built) : Cardinality(MemberIds(built[i])) >= 2
    /\ \A i \in 1..Len(built) : MemberIds(built[i]) # {}

\* The SR-only filter of the retry pass dropped record r of c's cluster.
DroppedBySRFilter(c, r) ==
    /\ c.n_filter = 1
    /\ header_evidence
    /\ r.sr
    /\ \E k \in 1..Len(c.cluster) : ~c.cluster[k].sr

\* Record r of c's cluster is a CNV the inversion classifier may leave out.
CNVOfInversion(c, r) ==
    c.cluster_type = "CANDIDATE_INVERSION" /\ r.svtype \in {"DEL", "DUP"}

\* C2 as stated: every record of every cluster is in the member list of
\* exactly one ComplexSV built from it, exactly once.
C2_NeverLost ==
    \A i \in 1..Len(built) :
        \A k \in 1..Len(built[i].cluster) :
            LET id == built[i].cluster[k].id
            IN  /\ Count(id, built[i].vcf_record.members) = 1
                /\ \A j \in 1..Len(built) :
                      j # i => Count(id, built[j].vcf_record.members) = 0

\* C2, amended: every record of a cluster is in the member list of at most
\* one ComplexSV, at most once; the member list holds only records of the
\* cluster; a record is missing from it exactly when the SR-only filter of
\* the retry pass dropped it, or (possibly) when it is a CNV of a candidate
\* inversion that the inversion classifier did not return.
C2_NeverDuplicated ==
    \A i \in 1..Len(built) :
        LET c == built[i]
            members == c.vcf_record.members
        IN  /\ Range(members) \subseteq Range(Ids(c.cluster))
            /\ Range(members) = MemberIds(c)
            /\ \A k \in 1..Len(c.cluster) :
                  LET r == c.cluster[k]
                  IN  /\ Count(r.id, members) <= 1
                      /\ \A j \in 1..Len(built) :
                            j # i => Count(r.id, built[j].vcf_record.members) = 0
                      /\ DroppedBySRFilter(c, r) => Count(r.id, members) = 0
                      /\ Count(r.id, members) = 0 =>
                            DroppedBySRFilter(c, r) \/ CNVOfInversion(c, r)

\* A ComplexSV whose retry pass dropped an SR-only member and kept another.
C2_Witness ==
    \E i \in 1..Len(built) :
        /\ built[i].n_filter = 1
        /\ Len(built[i].vcf_record.members) >= 1
        /\ \E k \in 1..Len(built[i].cluster) :
              /\ DroppedBySRFilter(built[i], built[i].cluster[k])
              /\ Count(built[i].cluster[k].id, built[i].vcf_record.members) = 0

\* (chrom rank, pos) of a before-or-equal that of b.
CoordLeq(a, b) ==
    \/ a.chrom < b.chrom
    \/ a.chrom = b.chrom /\ a.pos <= b.pos

\* C3: the stream yielded by _merge_records after resolve_complex_sv built
\* the queue is non-decreasing in (chromosome rank, pos).
C3_SortedOutput ==
    \A i \in 1..Len(out) - 1 :
        (~IsNone(out[i]) /\ ~IsNone(out[i + 1])) => CoordLeq(out[i], out[i + 1])

\* C6: within one resolve() call the cluster type is determined at most
\* twice; the SR-only filter pass runs at most once, and only when the first
\* determination gave none of the four resolvable types; when the second
\* determination gives none of them either, the result is svtype UNR with
\* cpx_type equal to the cluster type of the second determination.
C6_RetryOnce ==
    \A i \in 1..Len(built) :
        LET c == built[i]
        IN  /\ c.n_det \in {1, 2}
            /\ c.n_filter = c.n_det - 1
            /\ c.n_filter = 1 => c.first_type \notin ResolvableTypes
            /\ (c.n_det = 2 /\ c.cluster_type \notin ResolvableTypes) =>
                  c.svtype = "UNR" /\ c.cpx_type = c.cluster_type

\* A resolve() whose second determination differs from the first and is
\* still not resolvable.
C6_Witness ==
    \E i \in 1..Len(built) :
        /\ built[i].n_det = 2
        /\ built[i].n_filter = 1
        /\ built[i].cluster_type \notin ResolvableTypes
        /\ built[i].cluster_type # built[i].first_type
        /\ built[i].svtype = "UNR"

\* The only breakpoints of c's cluster are two inversions with identical
\* STRANDS.
TwoMatchedInversions(c) ==
    /\ class_counts(c.cluster) = <<2, 0, 0, 0>>
    /\ inversions(c.cluster)[1].strands = inversions(c.cluster)[2].strands

\* The retry pass dropped an inversion of c's cluster.
InversionDropped(c) ==
    \E k \in 1..Len(c.cluster) :
        c.cluster[k].svtype = "INV" /\ DroppedBySRFilter(c, c.cluster[k])

\* C7 as stated: a cluster whose only breakpoints are two inversions with
\* identical STRANDS always ends with cluster type MATCHED_STRANDS and is
\* unresolved with cpx_type MATCHED_STRANDS, whatever its evidence tags.
C7_MatchedStrands ==
    \A i \in 1..Len(built) :
        TwoMatchedInversions(built[i]) =>
            /\ built[i].cluster_type = "MATCHED_STRANDS"
            /\ built[i].svtype = "UNR"
            /\ built[i].cpx_type = "MATCHED_STRANDS"

\* C7, amended: such a cluster is first typed MATCHED_STRANDS, is retried
\* and always ends unresolved (svtype UNR); its final cluster type and
\* cpx_type are MATCHED_STRANDS unless the SR-only filter of the retry
\* dropped one or both inversions, and then they are SINGLE_ENDER or
\* ERROR_CNV_ONLY.
C7_MatchedStrandsUnresolved ==
    \A i \in 1..Len(built) :
        LET c == built[i]
        IN  TwoMatchedInversions(c) =>
                /\ c.first_type = "MATCHED_STRANDS"
                /\ c.n_det = 2
                /\ c.svtype = "UNR"
                /\ c.cpx_type = c.cluster_type
                /\ ~InversionDropped(c) => c.cpx_type = "MATCHED_STRANDS"
                /\ InversionDropped(c) =>
                      c.cpx_type \in {"SINGLE_ENDER", "ERROR_CNV_ONLY"}

\* Two matched inversions, one of them SR-only and dropped by the retry.
C7_Witness ==
    \E i \in 1..Len(built) :
        /\ TwoMatchedInversions(built[i])
        /\ InversionDropped(built[i])
        /\ built[i].svtype = "UNR"
        /\ built[i].cpx_type = "SINGLE_ENDER"

\* C8: a cluster of exactly two inversions with strands '++' and '--' and no
\* CNV is a CANDIDATE_INVERSION and resolves with svtype INV and the span
\* [min(FF.pos, RR.pos), max(FF.stop, RR.stop)] on the emitted record.
C8_SimpleInversion ==
    \A i \in 1..Len(built) :
        LET c == built[i]
            invs == inversions(c.cluster)
        IN  (/\ Len(c.cluster) = 2
             /\ Len(invs) = 2
             /\ {invs[1].strands, invs[2].strands} = {"++", "--"}) =>
                /\ c.first_type = "CANDIDATE_INVERSION"
                /\ c.svtype = "INV"
                /\ c.vcf_record.svtype = "INV"
                /\ c.vcf_record.pos = Min(invs[1].pos, invs[2].pos)
                /\ c.vcf_record.has_end
                /\ c.vcf_record.stop = Max(invs[1].stop, invs[2].stop)

\* The plus and minus breakend of c, as resolve_translocation orders them.
PlusMinus(c) == SortByStrands(tlocs(c.records))

\* c is a candidate translocation pair on one chromosome pair whose plus
\* breakend has strands '+-' and whose positions pass both buffered
\* comparisons of the CTX_PP/QQ branch.
C9_Case(c) ==
    /\ c.cluster_type = "CANDIDATE_TRANSLOCATION"
    /\ LET plus == PlusMinus(c)[1]
           minus == PlusMinus(c)[2]
       IN  /\ plus.strands = "+-"
           /\ plus.chrom = minus.chrom
           /\ plus.chr2 = minus.chr2
           /\ minus.pos > plus.pos - 50
           /\ plus.stop > minus.stop - 50

SameCoords(c) ==
    /\ PlusMinus(c)[1].pos = PlusMinus(c)[2].pos
    /\ PlusMinus(c)[1].stop = PlusMinus(c)[2].stop

Direction(c) == c.vcf_record.cpx_type

\* The sink span of a breakend pair for the direction resolve_insertion used.
SinkSpan(c) ==
    LET pair == SortByStrands(breakends(c.records))
        sink == InsertionSink(pair[1], pair[2], Direction(c))
    IN  sink[2] - sink[1]

\* C10: a breakend pair whose sink span is 100 or more is never resolved as
\* an insertion.  With valid strands resolve_insertion ends unresolved for
\* either direction; with invalid strands the cluster is unresolved already
\* at the cluster-type determination; a span of 99 with valid strands is
\* resolved.
C10_SinkSpan ==
    \A i \in 1..Len(built) :
        LET c == built[i]
        IN  /\ (/\ c.cluster_type = "CANDIDATE_INSERTION"
                 /\ Direction(c) \in {"INS_A2B", "INS_B2A"}) =>
                   /\ SinkSpan(c) >= 100 => c.svtype = "UNR"
                   /\ SinkSpan(c) <= 99 =>
                         /\ c.svtype = "INS"
                         /\ c.cpx_type = Direction(c)
            /\ (/\ class_counts(c.cluster) = <<0, 0, 2, 0>>
                 /\ ~ok_ins_strands(breakends(c.cluster)[1],
                                     breakends(c.cluster)[2])) =>
                   /\ c.first_type \notin ResolvableTypes
                   /\ c.cluster_type \notin ResolvableTypes
                   /\ c.svtype = "UNR"

\* A valid pair with a sink span of exactly 100, left unresolved.
C10_Witness ==
    \E i \in 1..Len(built) :
        /\ built[i].cluster_type = "CANDIDATE_INSERTION"
        /\ Direction(built[i]) \in {"INS_A2B", "INS_B2A"}
        /\ SinkSpan(built[i]) = 100
        /\ built[i].svtype = "UNR"

(***************************************************************************)
(* Properties of _merge_records                                            *)
(***************************************************************************)
\* How often an original may have been yielded by the end.
Due(r) == IF r.id \in cpx_record_ids THEN 0 ELSE 1

\* Three originals, the second consumed, one synthesized record lying
\* between the first and the third by coordinate.
C4_Example ==
    /\ Len(vcf) = 3
    /\ cpx_record_ids = {2}
    /\ Len(queued) = 1
    /\ CoordLeq(vcf[1], queued[1])
    /\ ~CoordLeq(vcf[3], queued[1])

\* C4: _merge_records yields every synthesized record exactly once and
\* every unconsumed original exactly once, and never a consumed original,
\* while comparing and while draining; on the example it yields the two
\* unconsumed originals and the synthesized record in coordinate order.
C4_ExactlyOnce ==
    /\ \A k \in 1..Len(queued) : Count(queued[k], out) <= 1
    /\ \A k \in 1..Len(vcf) : Count(vcf[k], out) <= Due(vcf[k])
    /\ pc = "done" =>
          /\ \A k \in 1..Len(queued) : Count(queued[k], out) = 1
          /\ \A k \in 1..Len(vcf) : Count(vcf[k], out) = Due(vcf[k])
          /\ C4_Example => out = <<vcf[1], queued[1], vcf[3]>>

\* The example, merged.
C4_Witness ==
    /\ pc = "done"
    /\ C4_Example
    /\ out = <<vcf[1], queued[1], vcf[3]>>

\* C5: with an empty queue and an empty consumed-id set, _merge_records
\* yields exactly the input stream, the empty stream included.
C5_Identity ==
    (pc = "done" /\ queued = <<>> /\ cpx_record_ids = {}) => out = vcf

(***************************************************************************)
(* Properties of rescan_single_ender                                       *)
(***************************************************************************)
\* The call returned or raised.
RescanDone == rescan.pc = "done"

\* The supported called samples of the selected cluster.
Supported == n_supported_samples(rescan.supporting, rescan.called)

\* A '--' record with two called samples, min_frac_samples = 0.5, a selected
\* cluster, and exactly one of the two samples with min_support '+' pairs.
C11_Case ==
    /\ RescanDone
    /\ rescan.record.strands = "--"
    /\ rescan.called = Samples
    /\ rescan.min_frac = <<1, 2>>
    /\ rescan.cluster # <<>>
    /\ Supported = 1

\* C11 as stated: with min_support = 4 and min_frac_samples = 0.5, a '--'
\* record with 2 called samples of which only 1 has at least 4 supporting
\* '+' pairs in the selected cluster gets none from rescan_single_ender.
C11_OneOfTwoNone == C11_Case => IsNone(rescan.result)

\* C11, amended: in that case 1 / 2 >= 0.5 holds and rescan_single_ender
\* returns the synthesized '++' record; it returns none when neither of the
\* two samples has 4 supporting pairs.
C11_OneOfTwoRescued ==
    /\ C11_Case =>
          /\ ~IsNone(rescan.result)
          /\ rescan.result.strands = "++"
          /\ rescan.error = NA
    /\ (/\ RescanDone
         /\ rescan.record.strands = "--"
         /\ rescan.called = Samples
         /\ rescan.min_frac = <<1, 2>>
         /\ rescan.cluster # <<>>
         /\ Supported = 0) => IsNone(rescan.result) /\ rescan.error = NA

\* One of two called samples has four '+' pairs, and a record came back.
C11_Witness ==
    /\ C11_Case
    /\ ~IsNone(rescan.result)
    /\ rescan.result.strands = "++"

\* The '+' inversion pairs of sample sm in the evidence file that lie
\* within 300bp of the record's bounds.
PlusNear(sm) ==
    SelectSeq(rescan.pe, LAMBDA p :
        /\ p.sample = sm
        /\ p.strandA = "+" /\ p.strandB = "+"
        /\ p.chrA = rescan.record.chrom /\ p.chrB = p.chrA
        /\ Abs(p.posA - rescan.record.pos) <= 300
        /\ Abs(p.posB - rescan.record.stop) <= 300)

\* A '--' record with two called samples, each with at least 4 such pairs,
\* default window, min_support and min_frac_samples.
C12_Case ==
    /\ RescanDone
    /\ rescan.record.strands = "--"
    /\ rescan.called = Samples
    /\ rescan.min_frac = <<1, 2>>
    /\ \A sm \in Samples : Len(PlusNear(sm)) >= 4

\* The '+' pairs of the selected cluster.
SelectedPlus == {p \in Range(rescan.cluster) : p.strandA = "+"}

\* The complementary record the claim describes.
C12_Rescued ==
    /\ rescan.error = NA
    /\ ~IsNone(rescan.result)
    /\ rescan.result.strands = "++"
    /\ rescan.result.pos = MaxOf({p.posA : p \in SelectedPlus})
    /\ rescan.result.stop = MaxOf({p.posB : p \in SelectedPlus})
    /\ rescan.result.has_end
    /\ rescan.result.svlen = rescan.result.stop - rescan.result.pos

\* C12 as stated: for a '--' record with 2 called samples each contributing
\* at least 4 '+'/'+' pairs clustered within 300bp of the record bounds,
\* rescan_single_ender returns a '++' record at the maximum posA / posB of
\* the supporting pairs, with SVLEN = stop - pos.
C12_RescueAlways == C12_Case => C12_Rescued

\* The selected cluster is the one holding the '+' pairs of both samples.
C12_Selected ==
    \A sm \in Samples : Range(PlusNear(sm)) \subseteq Range(rescan.cluster)

\* C12, amended: the record comes back when the cluster of those pairs is
\* the selected one, which needs a '-' pair in it whose minimum posA / posB
\* lie within the window of the record's pos / stop; when that cluster holds
\* no such '-' pair it is not selected and rescan_single_ender returns none.
C12_RescueWhenMatched ==
    /\ (C12_Case /\ C12_Selected) =>
          /\ C12_Rescued
          /\ \E p \in Range(rescan.cluster) : p.strandA = "-"
    /\ (C12_Case /\ ~C12_Selected) =>
          /\ \A sm \in Samples :
                \A p \in Range(PlusNear(sm)) :
                    \A k \in 1..Len(rescan.clusters) :
                        p \notin Range(rescan.clusters[k])
          /\ IsNone(rescan.result)
          /\ rescan.error = NA

\* Both samples have four '+' pairs, the cluster holds a '-' pair at the
\* record, and the record at max posA = 950, max posB = 1900 came back.
C12_Witness ==
    /\ C12_Case
    /\ C12_Selected
    /\ \E p \in Range(rescan.cluster) : p.strandA = "-"
    /\ rescan.result.strands = "++"
    /\ rescan.result.pos = 950
    /\ rescan.result.stop = 1900

\* C18: with min_frac_samples = 0, rescan_single_ender returns a record
\* only if at least one called sample has min_support supporting pairs;
\* with no supporting sample it returns none and raises no error.
C18_ZeroFraction ==
    (/\ RescanDone
     /\ rescan.min_frac[1] = 0
     /\ ~InvalidOrientation(rescan.record)) =>
        /\ ~IsNone(rescan.result) => Supported >= 1
        /\ Supported = 0 => IsNone(rescan.result) /\ rescan.error = NA


(***************************************************************************)
(* Properties of the classifier's results                                  *)
(***************************************************************************)
\* The inversion sub-types with a flanking deletion or duplication.
FlankedInversionTypes ==
    {"delINV", "INVdel", "delINVdel", "dupINV", "INVdup", "dupINVdup"}

\* C13 as stated: every ComplexSV the classifier produces has svtype in
\* {DEL, DUP, INV, INS, CTX, UNR}, for every cluster composition and every
\* sub-classification.
C13_SvtypeSet ==
    \A i \in 1..Len(built) :
        built[i].svtype \in {"DEL", "DUP", "INV", "INS", "CTX", "UNR"}

\* C13, amended: every ComplexSV the classifier produces has svtype in
\* {DUP, INV, INS, CTX, CPX, UNR}; svtype is CPX exactly for a candidate
\* inversion whose sub-type is an inversion with a flanking deletion or
\* duplication, and DEL is never produced.
C13_SvtypeSetCPX ==
    \A i \in 1..Len(built) :
        LET c == built[i]
        IN  /\ c.svtype \in {"DUP", "INV", "INS", "CTX", "CPX", "UNR"}
            /\ c.svtype = "CPX" <=>
                  /\ c.cluster_type = "CANDIDATE_INVERSION"
                  /\ c.cpx_type \in FlankedInversionTypes
            /\ c.svtype # "UNR" => c.vcf_record.svtype = c.svtype

\* An inversion pair with a deletion on both sides, resolved as CPX.
C13_Witness ==
    \E i \in 1..Len(built) :
        /\ built[i].svtype = "CPX"
        /\ built[i].cpx_type = "delINVdel"
        /\ built[i].vcf_record.svtype = "CPX"

\* Exactly one partition holds two records and the other three hold none.
SinglePairing(cc) ==
    /\ \A k \in 1..4 : cc[k] \in {0, 2}
    /\ Cardinality({k \in 1..4 : cc[k] = 2}) = 1

\* C14: when the four partition counts total at least 2 and no
\* single-partition pairing matched, set_cluster_type yields
\* RESOLVED_INSERTION for a cluster with exactly one insertion record and at
\* least one same-chromosome breakend, and MIXED_BREAKENDS for every other
\* such cluster.
C14_LoneInsertionWithBreakend ==
    \A i \in 1..Len(built) :
        LET c == built[i]
            cc == class_counts(c.cluster)
        IN  (SumCounts(cc) >= 2 /\ ~SinglePairing(cc)) =>
                c.first_type = IF cc[4] = 1 /\ cc[3] >= 1
                               THEN "RESOLVED_INSERTION"
                               ELSE "MIXED_BREAKENDS"

\* The union of the algorithm names of a list of records.
AlgorithmsOf(records) ==
    UNION {Range(records[k].algs) : k \in 1..Len(records)}

\* Two same-chromosome breakends with valid strands and a sink span under
\* MaxSinkSpan for either direction, plus exactly one insertion record.
C15_Case(c) ==
    LET bnds == breakends(c.cluster)
        pair == SortByStrands(bnds)
    IN  /\ Len(c.cluster) = 3
        /\ Len(bnds) = 2
        /\ Len(insertions(c.cluster)) = 1
        /\ ok_ins_strands(bnds[1], bnds[2])
        /\ \A d \in {"INS_A2B", "INS_B2A"} :
              ~SinkTooLarge(InsertionSink(pair[1], pair[2], d))

\* C15: a cluster of two same-chromosome breakends with valid '+-'/'-+'
\* strands and acceptor span under 100 that also contains exactly one
\* insertion record is resolved as an insertion whose emitted record is that
\* insertion record, with ALGORITHMS the sorted union of the breakends' and
\* the insertion record's algorithm names.
C15_MergedInsertion ==
    \A i \in 1..Len(built) :
        LET c == built[i]
        IN  C15_Case(c) =>
                /\ c.svtype = "INS"
                /\ c.vcf_record.id = insertions(c.cluster)[1].id
                /\ c.vcf_record.algs = SetToSortedSeq(AlgorithmsOf(c.cluster))

\* C16: a cluster of exactly one insertion record is classified
\* RESOLVED_INSERTION and passes through as a resolved insertion: the result
\* has svtype INS, not UNR, and the emitted record carries CPX_TYPE.
C16_LoneInsertion ==
    \A i \in 1..Len(built) :
        LET c == built[i]
        IN  (Len(c.cluster) = 1 /\ c.cluster[1].svtype = "INS") =>
                /\ c.first_type = "RESOLVED_INSERTION"
                /\ c.svtype = "INS"
                /\ c.vcf_record.cpx_type # NA

\* Everything resolve_complex_sv has queued so far: the queue under
\* construction during the loop over the clusters, and the queue handed to
\* _merge_records afterwards.
Queue ==
    IF pc \in {"merge_init", "merge", "done"} THEN queued ELSE cpx_records

\* The queue entries that stem from the n-th ComplexSV: its synthesized
\* record under its resolved id, and the records tagged with its EVENT id.
QueuedBy(n) ==
    SelectSeq(Queue, LAMBDA r : r.id = ResolvedId(n)
                                \/ r.event = UnresolvedVid(n))

\* C17: when a cluster resolves to svtype UNR, every record of its final
\* member list is queued individually and the synthesized record is not,
\* each with the UNRESOLVED flag, CPX_TYPE equal to the cluster's cpx_type
\* and one EVENT id shared by all members of that cluster; a resolved
\* cluster queues exactly one record and never sets UNRESOLVED.
C17_UnresolvedMembers ==
    \A n \in 1..Len(built) :
        LET c == built[n]
            q == QueuedBy(n)
        IN  IF c.svtype = "UNR"
            THEN /\ Len(q) = Len(c.records)
                 /\ \A k \in 1..Len(q) :
                       /\ q[k].id = c.records[k].id
                       /\ q[k].unresolved
                       /\ q[k].cpx_type = c.cpx_type
                       /\ q[k].event = UnresolvedVid(n)
            ELSE /\ Len(q) = 1
                 /\ q[1].id = ResolvedId(n)
                 /\ ~q[1].unresolved

\* C17 restricted to the clusters that are not made of insertion records
\* only (resolve.py lines 150-167).
C17_MixedClusters ==
    \A n \in 1..Len(built) :
        LET c == built[n]
            q == QueuedBy(n)
        IN  ~AllInsertions(c.cluster) =>
                IF c.svtype = "UNR"
                THEN /\ Len(q) = Len(c.records)
                     /\ \A k \in 1..Len(q) :
                           /\ q[k].id = c.records[k].id
                           /\ q[k].unresolved
                           /\ q[k].cpx_type = c.cpx_type
                           /\ q[k].event = UnresolvedVid(n)
                ELSE /\ Len(q) = 1
                     /\ q[1].id = ResolvedId(n)
                     /\ ~q[1].unresolved

\* The resolution branch of c wrote a span on the emitted record.
SpanWritten(c) ==
    \/ c.cluster_type = "CANDIDATE_INVERSION"
    \/ c.cluster_type = "CANDIDATE_TRANSLOCATION" /\ c.svtype \in {"CTX", "INS"}
    \/ c.cluster_type = "CANDIDATE_INSERTION" /\ c.svtype = "INS"

\* The end of the span that branch computed, where the model can name it
\* from c alone: the overall end of an inversion pair, the end of the plus
\* breakend of a reciprocal translocation, the sink end of a breakend pair.
SpanStop(c) ==
    CASE c.cluster_type = "CANDIDATE_INVERSION" /\ c.svtype # "INS" ->
            Max(inversions(c.records)[1].stop, inversions(c.records)[2].stop)
      [] c.cluster_type = "CANDIDATE_TRANSLOCATION" /\ c.svtype = "CTX" ->
            SortByStrands(tlocs(c.records))[1].stop
      [] c.cluster_type = "CANDIDATE_INSERTION" ->
            InsertionSink(SortByStrands(breakends(c.records))[1],
                          SortByStrands(breakends(c.records))[2],
                          c.cpx_type)[2]
      [] OTHER -> c.vcf_record.stop

\* C19: in every resolution branch that writes a span (resolve_inversion,
\* resolve_translocation, resolve_insertion) the alt-allele assignment,
\* which clears END, happens before the final write of pos/stop, so the
\* emitted record has its END and its stop is the span the branch computed.
C19_AltsBeforeSpan ==
    \A i \in 1..Len(built) :
        LET c == built[i]
        IN  SpanWritten(c) =>
                /\ c.vcf_record.has_end
                /\ c.vcf_record.stop = SpanStop(c)

\* C19 for the two branches that assign the alt allele up front:
\* resolve_translocation and resolve_insertion.
C19_UpFrontBranches ==
    \A i \in 1..Len(built) :
        LET c == built[i]
        IN  (SpanWritten(c) /\ c.cluster_type # "CANDIDATE_INVERSION") =>
                /\ c.vcf_record.has_end
                /\ c.vcf_record.stop = SpanStop(c)

\* The records the last cluster-type determination of c looked at: the
\* cluster itself, or what the SR-only filter left of it.
Classified(c) ==
    IF c.n_det = 1 THEN c.cluster
    ELSE remove_SR_only_breakpoints(c.cluster, header_evidence)

\* The STRANDS of a pair of records, as a set.
StrandsOf(pair) == {pair[1].strands, pair[2].strands}

\* C20: set_cluster_type yields CANDIDATE_INVERSION, CANDIDATE_TRANSLOCATION
\* or CANDIDATE_INSERTION only if exactly one of the four partitions has
\* exactly 2 members and the other three have none (the inversions, the
\* translocations and the breakends respectively); the last two also
\* require a cluster without CNV and strands '++'/'--' or '+-'/'-+' for
\* translocations, '+-'/'-+' for breakends.
C20_CandidateOnlyIfPaired ==
    \A i \in 1..Len(built) :
        LET c == built[i]
            recs == Classified(c)
            cc == class_counts(recs)
            t == c.cluster_type
        IN  /\ t = "CANDIDATE_INVERSION" => cc = <<2, 0, 0, 0>>
            /\ t = "CANDIDATE_TRANSLOCATION" =>
                  /\ cc = <<0, 2, 0, 0>>
                  /\ cnvs(recs) = <<>>
                  /\ StrandsOf(tlocs(recs)) \in {{"++", "--"}, {"+-", "-+"}}
            /\ t = "CANDIDATE_INSERTION" =>
                  /\ cc = <<0, 0, 2, 0>>
                  /\ cnvs(recs) = <<>>
                  /\ StrandsOf(breakends(recs)) = {"+-", "-+"}
            /\ c.first_type \in {"CANDIDATE_INVERSION",
                                 "CANDIDATE_TRANSLOCATION",
                                 "CANDIDATE_INSERTION"} =>
                  /\ SinglePairing(class_counts(c.cluster))
                  /\ c.cluster_type = c.first_type
                  /\ c.n_det = 1

\* A translocation pair with valid strands and no CNV that is a candidate
\* only once the retry has dropped a third, SR-only translocation.
C20_Witness ==
    \E i \in 1..Len(built) :
        /\ built[i].n_det = 2
        /\ built[i].cluster_type = "CANDIDATE_TRANSLOCATION"
        /\ class_counts(built[i].cluster) = <<0, 3, 0, 0>>
        /\ class_counts(Classified(built[i])) = <<0, 2, 0, 0>>

(***************************************************************************)
(* Properties of resolve_translocation                                     *)
(***************************************************************************)
\* The label classify_simple_translocation gave the pair of c.
RawLabel(c) ==
    classify_simple_translocation(PlusMinus(c)[1], PlusMinus(c)[2])

\* The arms get_arms answered agree with the orientation of the label.
ArmsConsistent(c) ==
    IF RawLabel(c) = "CTX_PP/QQ" THEN c.arms[1] = c.arms[2]
                                 ELSE c.arms[1] # c.arms[2]

\* C21: a reciprocal translocation outcome (CTX_PP/QQ or CTX_PQ/QP) is
\* emitted with svtype CTX only if the two breakends are not
\* coordinate-identical and the arms are consistent (equal for PP/QQ,
\* different for PQ/QP); coordinate-identical pairs get svtype UNR with
\* cpx_type suffixed _DUPLICATE_COORDS whatever the arms are; accepted
\* events copy chrom, pos, CHR2 and stop from the plus breakend, with
\* SVLEN = -1.
C21_ReciprocalAccepted ==
    \A i \in 1..Len(built) :
        LET c == built[i]
            plus == PlusMinus(c)[1]
        IN  c.cluster_type = "CANDIDATE_TRANSLOCATION" =>
              /\ c.svtype = "CTX" =>
                    /\ RawLabel(c) \in {"CTX_PP/QQ", "CTX_PQ/QP"}
                    /\ ~SameCoords(c)
                    /\ ArmsConsistent(c)
                    /\ c.cpx_type = RawLabel(c)
                    /\ c.vcf_record.svtype = "CTX"
                    /\ c.vcf_record.chrom = plus.chrom
                    /\ c.vcf_record.pos = plus.pos
                    /\ c.vcf_record.chr2 = plus.chr2
                    /\ c.vcf_record.has_end
                    /\ c.vcf_record.stop = plus.stop
                    /\ c.vcf_record.svlen = -1
              /\ (RawLabel(c) = "CTX_PP/QQ" /\ SameCoords(c)) =>
                    /\ c.svtype = "UNR"
                    /\ c.cpx_type = "CTX_PP/QQ_DUPLICATE_COORDS"
              /\ (RawLabel(c) = "CTX_PQ/QP" /\ SameCoords(c)) =>
                    /\ c.svtype = "UNR"
                    /\ c.cpx_type = "CTX_PQ/QP_DUPLICATE_COORDS"
              /\ (/\ RawLabel(c) \in {"CTX_PP/QQ", "CTX_PQ/QP"}
                  /\ ~SameCoords(c)
                  /\ ~ArmsConsistent(c)) => c.svtype = "UNR"

\* A coordinate-identical '++'/'--' pair whose arms differ, as a PQ/QP
\* exchange needs: rejected all the same.
C21_Witness ==
    \E i \in 1..Len(built) :
        /\ built[i].cluster_type = "CANDIDATE_TRANSLOCATION"
        /\ RawLabel(built[i]) = "CTX_PQ/QP"
        /\ SameCoords(built[i])
        /\ built[i].arms[1] # built[i].arms[2]
        /\ built[i].svtype = "UNR"
        /\ built[i].cpx_type = "CTX_PQ/QP_DUPLICATE_COORDS"

(***************************************************************************)
(* Properties of clean_record                                              *)
(***************************************************************************)
\* A strictly ascending sequence: sorted and without duplicates.
Ascending(s) == \A k \in 1..Len(s) - 1 : s[k] < s[k + 1]

\* C22: after construction the synthesized record's MEMBERS is the
\* ascending list of the ids of exactly the records of the ComplexSV's
\* final record set (the set record_ids gives, after any SR-only filtering
\* and inversion re-membering), and its ALGORITHMS is the sorted,
\* de-duplicated union of the algorithm names of those same records.
C22_MembersAndAlgorithms ==
    \A i \in 1..Len(built) :
        LET c == built[i]
            r == c.vcf_record
        IN  /\ Range(r.members) = Range(record_ids(c))
            /\ Len(r.members) = Len(c.records)
            /\ Ascending(r.members)
            /\ Range(r.algs) = AlgorithmsOf(c.records)
            /\ Ascending(r.algs)

\* An inversion pair that becomes a candidate once the retry has dropped a
\* third, SR-only inversion; resolve_inversion lists FF (id 2) before RR
\* (id 1), and MEMBERS is <<1, 2>>.
C22_Witness ==
    \E i \in 1..Len(built) :
        /\ Len(built[i].cluster) = 3
        /\ record_ids(built[i]) = <<2, 1>>
        /\ built[i].vcf_record.members = <<1, 2>>
        /\ built[i].svtype = "INV"

(***************************************************************************)
(* Further properties of rescan_single_ender                               *)
(***************************************************************************)
\* C23: rescan_single_ender called on a record whose STRANDS is neither
\* '++' nor '--' always aborts with a fatal error and never returns a
\* result or none, whatever discordant pairs the fetch returns, none at all
\* included.
C23_InvalidStrandsFatal ==
    (RescanDone /\ InvalidOrientation(rescan.record)) =>
        rescan.error = "Exception"

\* C23 for the calls whose fetch leaves at least one inversion pair of a
\* called sample: those do abort.
C23_FatalWithPairs ==
    (RescanDone /\ InvalidOrientation(rescan.record) /\ rescan.pairs # <<>>) =>
        /\ rescan.error = "Exception"
        /\ IsNone(rescan.result)

\* The labels classify_simple_translocation can return.
TranslocationLabels ==
    {"TLOC_MISMATCH_CHROM", "CTX_UNR", "CTX_PP/QQ", "CTX_PQ/QP",
     "CTX_INS_A2B", "CTX_INS_B2A", "CTX_INV_INS_A2B", "CTX_INV_INS_B2A"}

\* C24: the fatal 'Invalid cpx type' branch of resolve_translocation is
\* unreachable: every value classify_simple_translocation can return is
\* handled by an earlier branch, for every coordinate configuration and
\* strand orientation, so no run ends in that exception and every candidate
\* translocation gets svtype INS, CTX or UNR.
C24_InvalidTypeUnreachable ==
    /\ pc # "Exception"
    /\ \A i \in 1..Len(built) :
          LET c == built[i]
          IN  c.cluster_type = "CANDIDATE_TRANSLOCATION" =>
                /\ RawLabel(c) \in TranslocationLabels
                /\ c.error = NA
                /\ c.svtype \in {"INS", "CTX", "UNR"}
                /\ c.vcf_record.svtype = c.svtype

\* A pair that matches no pattern: the fall-through label CTX_UNR, handled
\* as unresolved.
C24_Witness ==
    \E i \in 1..Len(built) :
        /\ built[i].cluster_type = "CANDIDATE_TRANSLOCATION"
        /\ RawLabel(built[i]) = "CTX_UNR"
        /\ built[i].svtype = "UNR"
        /\ built[i].cpx_type = "CTX_UNR"

(***************************************************************************)
(* Properties of the SR-only filter over the whole run                     *)
(***************************************************************************)
\* The entries of a stream that carry id.
WithIdIn(stream, id) == SelectSeq(stream, LAMBDA r : r.id = id)

\* The retry pass of c ran its filter where it may drop nothing: the header
\* has no EVIDENCE field, or every member of the cluster is SR-only.
FilterKeepsAll(c) ==
    /\ c.n_filter = 1
    /\ \/ ~header_evidence
       \/ \A k \in 1..Len(c.cluster) : c.cluster[k].sr

PartitionsOf(records, r) ==
    Cardinality({k \in 1..5 :
        r \in Range(<<inversions(records), tlocs(records),
                      breakends(records), insertions(records),
                      cnvs(records)>>[k])})

\* C26: for every cluster whose records have a declared type in {INV, BND,
\* DEL, DUP, INS}, organize_records places each record in exactly one of
\* the five partitions inversions, translocations, breakends, insertions,
\* cnvs, so the four partition counts never count one record twice.
C26_Partition ==
    \A i \in 1..Len(built) :
        LET c == built[i]
        IN  /\ \A k \in 1..Len(c.cluster) :
                  PartitionsOf(c.cluster, c.cluster[k]) = 1
            /\ SumCounts(class_counts(c.cluster)) + Len(cnvs(c.cluster))
                  = Len(c.cluster)

\* C26 for the clusters in which only breakends (type BND) have CHR2
\* different from their chromosome.
C26_PartitionSameChrom ==
    \A i \in 1..Len(built) :
        LET c == built[i]
        IN  (\A k \in 1..Len(c.cluster) :
                c.cluster[k].svtype # "BND" =>
                    c.cluster[k].chrom = c.cluster[k].chr2) =>
              /\ \A k \in 1..Len(c.cluster) :
                    PartitionsOf(c.cluster, c.cluster[k]) = 1
              /\ SumCounts(class_counts(c.cluster)) + Len(cnvs(c.cluster))
                    = Len(c.cluster)

(***************************************************************************)
(* Properties of the translocation insertions                              *)
(***************************************************************************)
\* c is a translocation pair resolved as an insertion.
TranslocationInsertion(c) ==
    /\ c.cluster_type = "CANDIDATE_TRANSLOCATION"
    /\ c.svtype = "INS"
    /\ c.cpx_type \in {"CTX_INS_A2B", "CTX_INS_B2A",
                       "CTX_INV_INS_A2B", "CTX_INV_INS_B2A"}

\* C27: for every translocation pair resolved as an insertion, the emitted
\* record's sink span is well ordered (pos <= stop), given the buffered
\* comparisons of classify_simple_translocation with mh_buffer = 50, and
\* its SVLEN is non-negative.
C27_SinkOrdered ==
    \A i \in 1..Len(built) :
        LET c == built[i]
        IN  TranslocationInsertion(c) =>
                /\ c.vcf_record.pos <= c.vcf_record.stop
                /\ c.vcf_record.svlen >= 0

\* C27 without the buffer's slack: the sink end is never more than
\* mh_buffer - 1 below the sink start, and SVLEN is non-negative.
C27_SinkWithinBuffer ==
    \A i \in 1..Len(built) :
        LET c == built[i]
        IN  TranslocationInsertion(c) =>
                /\ c.vcf_record.stop > c.vcf_record.pos - mh_buffer
                /\ c.vcf_record.has_end
                /\ c.vcf_record.svlen >= 0

(***************************************************************************)
(* Properties of _merge_records as a merge                                 *)
(***************************************************************************)
\* s is an initial part of t.
IsPrefix(s, t) == Len(s) <= Len(t) /\ s = SubSeq(t, 1, Len(s))

\* The originals that survive: the ones whose id is not consumed.
Surviving == SelectSeq(vcf, LAMBDA r : r.id \notin cpx_record_ids)

\* What has been yielded so far from either source.
YieldedOriginals == SelectSeq(out, LAMBDA r : r \in Range(vcf))
YieldedSynthesized == SelectSeq(out, LAMBDA r : r \in Range(queued))

\* One iteration of the while loop (lines 59-79).
LoopStep == pc = "merge" /\ pc' = "merge"

\* The two heads lie on the same chromosome at the same position, and the
\* original one is not consumed.
HeadsTie ==
    /\ ~IsNone(curr_record) /\ ~IsNone(curr_cpx)
    /\ curr_record.id \notin cpx_record_ids
    /\ curr_record.chrom = curr_cpx.chrom
    /\ curr_record.pos = curr_cpx.pos

\* C28: _merge_records is a stable merge: the surviving original records
\* are emitted in their input order and the synthesized records in their
\* queue order, each step of the loop advances exactly one of the two
\* sources, and when the two heads have the same chromosome and the same
\* position the original record is emitted before the synthesized one.
C28_StableMerge ==
    /\ [](/\ IsPrefix(YieldedOriginals, Surviving)
          /\ IsPrefix(YieldedSynthesized, queued)
          /\ pc = "done" =>
                /\ YieldedOriginals = Surviving
                /\ YieldedSynthesized = queued)
    /\ [][/\ LoopStep =>
                (curr_record' # curr_record) # (curr_cpx' # curr_cpx)
          /\ (LoopStep /\ HeadsTie) =>
                /\ out' = Append(out, curr_record)
                /\ curr_cpx' = curr_cpx]_vars

\* A finished merge of two or more originals and two or more synthesized
\* records in which a tie was met: an original record directly followed by
\* a synthesized one of the same chromosome and position.
C28_Witness ==
    /\ pc = "done"
    /\ Len(Surviving) >= 2
    /\ Len(queued) >= 2
    /\ \E k \in 1..Len(out) - 1 :
          /\ out[k] \in Range(vcf)
          /\ out[k + 1] \in Range(queued)
          /\ out[k].chrom = out[k + 1].chrom
          /\ out[k].pos = out[k + 1].pos

(***************************************************************************)
(* Properties of classify_simple_translocation                             *)
(***************************************************************************)
\* p1 is at least mh_buffer below p2: the buffered comparison fails.
FarBelow(p1, p2) == p1 + mh_buffer <= p2

\* No pattern matches the pair: the A side of minus is far below that of
\* plus, and so is the B side of plus ('+-') or of minus (other strands).
NoPattern(plus, minus) ==
    /\ FarBelow(minus.pos, plus.pos)
    /\ IF plus.strands = "+-" THEN FarBelow(plus.stop, minus.stop)
                              ELSE FarBelow(minus.stop, plus.stop)

\* The first pattern of the listed order that matches the pair.
FirstPattern(plus, minus) ==
    LET a == ~FarBelow(minus.pos, plus.pos)
        a2 == ~FarBelow(plus.pos, minus.pos)
        b == ~FarBelow(plus.stop, minus.stop)
        b2 == ~FarBelow(minus.stop, plus.stop)
    IN  IF plus.strands = "+-"
        THEN CASE a /\ b -> "CTX_PP/QQ"
               [] ~(a /\ b) /\ a /\ b2 -> "CTX_INS_B2A"
               [] ~(a /\ b) /\ ~(a /\ b2) /\ a2 /\ b -> "CTX_INS_A2B"
               [] OTHER -> "NONE"
        ELSE CASE a /\ b2 -> "CTX_PQ/QP"
               [] ~(a /\ b2) /\ a /\ b -> "CTX_INV_INS_B2A"
               [] ~(a /\ b2) /\ ~(a /\ b) /\ a2 /\ b2 -> "CTX_INV_INS_A2B"
               [] OTHER -> "NONE"

\* The suffixes resolve_translocation appends to a reciprocal label.
Suffixed(label) ==
    {label} \cup
    (IF label \in {"CTX_PP/QQ", "CTX_PQ/QP"}
     THEN {IF label = "CTX_PP/QQ" THEN "CTX_PP/QQ_MISMATCH"
                                  ELSE "CTX_PQ/QP_MISMATCH",
           IF label = "CTX_PP/QQ" THEN "CTX_PP/QQ_DUPLICATE_COORDS"
                                  ELSE "CTX_PQ/QP_DUPLICATE_COORDS"}
     ELSE {})

\* C29: for two breakends on the same chromosome pair,
\* classify_simple_translocation returns CTX_UNR exactly when
\* minus.pos <= plus.pos - mh_buffer and, for plus strands '+-',
\* plus.END <= minus.END - mh_buffer, or, for any other plus strands,
\* minus.END <= plus.END - mh_buffer; in every other configuration it
\* returns a reciprocal or insertion label, the first matching pattern in
\* the listed order winning.
C29_UnresolvedExactly ==
    \A i \in 1..Len(built) :
        LET c == built[i]
            plus == PlusMinus(c)[1]
            minus == PlusMinus(c)[2]
        IN  (/\ c.cluster_type = "CANDIDATE_TRANSLOCATION"
             /\ plus.chrom = minus.chrom
             /\ plus.chr2 = minus.chr2) =>
              /\ c.cpx_type = "CTX_UNR" <=> NoPattern(plus, minus)
              /\ RawLabel(c) = "CTX_UNR" <=> NoPattern(plus, minus)
              /\ ~NoPattern(plus, minus) =>
                    /\ RawLabel(c) = FirstPattern(plus, minus)
                    /\ c.cpx_type \in Suffixed(FirstPattern(plus, minus))

\* A '++'/'--' pair without a matching pattern: minus lies 55 bp below plus
\* on the A side and 60 bp below it on the B side.
C29_Witness ==
    \E i \in 1..Len(built) :
        /\ built[i].cluster_type = "CANDIDATE_TRANSLOCATION"
        /\ PlusMinus(built[i])[1].strands = "++"
        /\ PlusMinus(built[i])[1].pos = 150
        /\ PlusMinus(built[i])[1].stop = 5060
        /\ PlusMinus(built[i])[2].pos = 95
        /\ PlusMinus(built[i])[2].stop = 5000
        /\ built[i].cpx_type = "CTX_UNR"

\* The pairs of a cluster that have the record's own strand.
OwnPairs(cluster) ==
    {p \in Range(cluster) :
        p.strandA = (IF rescan.record.strands = "++" THEN "+" ELSE "-")}

\* The extremal coordinate of a set of positions: the maximum for a '++'
\* record, the minimum for a '--' record.
Extremal(S) == IF rescan.record.strands = "++" THEN MaxOf(S) ELSE MinOf(S)

\* The cluster holds pairs of the record's own strand whose extremal
\* coordinates lie strictly within window of the record's start and end.
OwnWithinWindow(cluster) ==
    /\ OwnPairs(cluster) # {}
    /\ Abs(rescan.record.pos
           - Extremal({p.posA : p \in OwnPairs(cluster)})) < window
    /\ Abs(rescan.record.stop
           - Extremal({p.posB : p \in OwnPairs(cluster)})) < window

\* The selected cluster is the first of the largest matching clusters.
FirstLargest ==
    \E k \in 1..Len(rescan.clusters) :
        /\ rescan.clusters[k] = rescan.cluster
        /\ \A j \in 1..Len(rescan.clusters) :
              Len(rescan.clusters[j]) <= Len(rescan.cluster)
        /\ \A j \in 1..k - 1 :
              Len(rescan.clusters[j]) < Len(rescan.cluster)

\* C30: rescan_single_ender returns a complementary record only if the
\* selected cluster, the first largest by total member count among the
\* matching clusters, contains at least one pair of the record's own strand
\* whose extremal coordinates (max posA / posB for '++', min for '--') lie
\* strictly within window of the record's start and end; a cluster made
\* solely of missing-strand pairs never rescues, and an empty fetch returns
\* none.
C30_RescueNeedsOwnStrand ==
    /\ (RescanDone /\ ~IsNone(rescan.result)) =>
          /\ rescan.record.strands \in {"++", "--"}
          /\ FirstLargest
          /\ \A k \in 1..Len(rescan.clusters) :
                OwnWithinWindow(rescan.clusters[k])
          /\ OwnWithinWindow(rescan.cluster)
          /\ rescan.result.strands # rescan.record.strands
    /\ (RescanDone /\ rescan.pairs # <<>>
        /\ \A p \in Range(rescan.pairs) :
              p.strandA # (IF rescan.record.strands = "++" THEN "+" ELSE "-")) =>
          IsNone(rescan.result)
    /\ (RescanDone /\ rescan.pe = <<>>) =>
          IsNone(rescan.result) /\ rescan.error = NA

\* A '--' record rescued by the first of two matching clusters of the same
\* size, whose own '-' pair starts 10 bp from the record; the other cluster
\* holds '-' pairs only.
C30_Witness ==
    /\ RescanDone
    /\ rescan.record.strands = "--"
    /\ ~IsNone(rescan.result)
    /\ FirstLargest
    /\ MinOf({p.posA : p \in OwnPairs(rescan.cluster)}) = 1010
    /\ \E k \in 1..Len(rescan.clusters) :
          /\ rescan.clusters[k] # rescan.cluster
          /\ Len(rescan.clusters[k]) = Len(rescan.cluster)
          /\ OwnPairs(rescan.clusters[k]) = Range(rescan.clusters[k])
====
